---- MODULE Spec2Model ----
(***************************************************************************)
(* FlowCtl: the State Store (PostgresStore), the Work Queue (RedisQueue),  *)
(* the Scheduler loops and the Worker runtime, as state machine.           *)
(***************************************************************************)
EXTENDS Integers, Sequences, FiniteSets, TLC

(* ------------------------------ bounds -------------------------------- *)
\* the wall clock (seconds) runs from 0 to MaxTime
MaxTime == 2
\* a scheduling tick is not started when it would make a ready list longer
MaxReady == 2
\* the store's retry_count column is not driven beyond this value
MaxRetryCount == 2
\* worker processes die at most this many times
MaxCrashes == 1
\* clients of the State Store apply at most this many status updates
MaxUpdates == 2
\* the retry set of a type holds at most this many entries when a retry tick
\* finds it
MaxRetryEntries == 101
\* the worker registry is followed for this many minutes
MaxMinutes == 6
\* calculateBackoff is called with retry counts from 0 to MaxShift
MaxShift == 70
\* a task of a YAML file names at most this many tasks in depends_on
MaxDeps == 2
\* a submitted task gives priority and max_retries a value from 0 to this
MaxSupplied == 2

(* ----------------------- the submitted workflows ---------------------- *)
\* identifiers the server generates (uuid.New) and the names the user gives
WorkflowIds == {"W1"}
TaskIds == {"A", "B"}
TaskTypes == {"generic", "etl"}

\* requests whose dependency graph is not a DAG over the workflow's own
\* tasks, and the tasks they carry
InvalidWorkflowIds == {"W2", "W3"}
InvalidTaskIds == {"C", "D", "E"}
\* a request whose "tasks" is the empty array (the binding "required" of the
\* field refuses an absent or null array, not an empty one)
EmptyWorkflowIds == {"W0"}
\* requests with two tasks of type generic that depend on nothing
FanOutWorkflowIds == {"W4", "W5"}
FanOutTaskIds == {"F", "G", "H", "I"}
AllWorkflowIds ==
  WorkflowIds \cup InvalidWorkflowIds \cup EmptyWorkflowIds \cup FanOutWorkflowIds
AllTaskIds == TaskIds \cup InvalidTaskIds \cup FanOutTaskIds

\* W1 = a <- b (b depends on a); W2 = c <-> d (a cycle); W3 = e, which
\* depends on a name no task of W3 has; W4 = f (priority 1), g (priority 2);
\* W5 = h, i (both priority 1)
TaskWorkflow ==
  [t \in AllTaskIds |->
     CASE t \in {"A", "B"} -> "W1" [] t \in {"C", "D"} -> "W2" [] t = "E" -> "W3"
       [] t \in {"F", "G"} -> "W4" [] t \in {"H", "I"} -> "W5"]
TaskName ==
  [t \in AllTaskIds |->
     CASE t = "A" -> "a" [] t = "B" -> "b" [] t = "C" -> "c" [] t = "D" -> "d" [] t = "E" -> "e"
       [] t = "F" -> "f" [] t = "G" -> "g" [] t = "H" -> "h" [] t = "I" -> "i"]
TaskType == [t \in AllTaskIds |-> IF t = "B" THEN "etl" ELSE "generic"]
TaskDependencies ==
  [t \in AllTaskIds |->
     CASE t = "A" -> {} [] t = "B" -> {"a"} [] t = "C" -> {"d"} [] t = "D" -> {"c"}
       [] t = "E" -> {"x"} [] t \in FanOutTaskIds -> {}]
TaskMaxRetries == [t \in AllTaskIds |-> 1]
TaskPriority == [t \in AllTaskIds |-> IF t \in {"B", "G"} THEN 2 ELSE 1]
\* position of the task in the request: NewTask stamps created_at in order
TaskCreatedSeq == [t \in AllTaskIds |-> IF t \in {"A", "C", "E", "F", "H"} THEN 1 ELSE 2]

WorkflowTaskIds(w) == {t \in AllTaskIds : TaskWorkflow[t] = w}

\* worker goroutines (processTaskType), one per served type
Workers == {"wk1", "wk2"}
WorkerType == [w \in Workers |-> IF w = "wk1" THEN "generic" ELSE "etl"]

(* ------------------------------ constants ----------------------------- *)
NULL == "NULL"
NoTime == -1
TaskStatusPending == "pending"
TaskStatusRunning == "running"
TaskStatusCompleted == "completed"
TaskStatusFailed == "failed"
TaskStatusRetrying == "retrying"
TaskStatusCancelled == "cancelled"
WorkflowStatusPending == "pending"
WorkflowStatusRunning == "running"
WorkflowStatusCompleted == "completed"
WorkflowStatusFailed == "failed"
WorkflowStatusCancelled == "cancelled"

VARIABLES
  now,         \* time.Now(), in seconds
  workflows,   \* table workflows: id -> row
  tasks,       \* table tasks: id -> row
  ready,       \* queue:<type>      list, head first
  processing,  \* processing:<type> list, head first
  retry,       \* retry:<type>      sorted set: set of [member, score]
  dead_letter, \* dead_letter:<type> list, head first
  worker,      \* per worker goroutine: position in executeTask and its task
  crashes,     \* number of worker processes that died so far
  updates,     \* number of status updates applied by clients of the store
  response,    \* per workflow request: the status createWorkflow answered with
  payload,     \* per task: whether the payload of the request holds the keys the
               \* body of its type reads; nothing looks at it before the first run
  lastFailed,  \* per task: RetryCount of the struct whose run failed last, or -1
  lastTick,    \* the last scheduling tick: the statuses it read, the ids it enqueued
  workers, \* workers:<type>: set of worker ids
  workerInfo, \* worker:<id>: id -> WorkerInfo, with the time the key expires
  active,\* the last answer of GetActiveWorkers
  stopCh, \* Scheduler.stopCh is closed
  ctxDone, \* the context given to Scheduler.Start is cancelled
  loop, \* per scheduler loop: its position, and whether a tick waits in ticker.C
  wg, \* Scheduler.wg: the loops that have not returned
  stopPc,\* position of the call of Scheduler.Stop
  call,\* a call of a function of the program: its name, its input, its result
  tick,\* the scheduling tick under way, call by call: its position, the result of GetPendingTasks, the workflows and the tasks still to go
  heartbeat,\* per worker process: the position of its call of UpdateWorkerHeartbeat, and whether the last call returned an error
  main \* func main of the orchestrator: its position, the goroutines it started, and its WaitGroup

vars == <<now, workflows, tasks, ready, processing, retry, dead_letter, worker,
          crashes, updates, response, payload, lastFailed, lastTick,
          workers, workerInfo, active,
          stopCh, ctxDone, loop, wg, stopPc,
          call,
          tick,
          heartbeat,
          main>>

(* ------------------------------ helpers ------------------------------- *)
\* no function is being called
NoCall == [fn |-> "none"]

\* the scheduler is between two ticks
NoTickSteps == [pc |-> "idle", snap |-> <<>>, order |-> <<>>, sched |-> <<>>]

RECURSIVE Pow2(_)
Pow2(n) == IF n = 0 THEN 1 ELSE 2 * Pow2(n - 1)

\* LPUSH: new head
LPush(list, e) == <<e>> \o list

\* LREM key 1 value: remove the first occurrence from the head, if any
RECURSIVE LRem1(_, _)
LRem1(list, e) ==
  IF list = <<>> THEN <<>>
  ELSE IF Head(list) = e THEN Tail(list)
  ELSE <<Head(list)>> \o LRem1(Tail(list), e)

\* ZADD: a sorted set holds a member once; adding it again replaces its score
ZAdd(zset, m, score) == {z \in zset : z.member # m} \cup {[member |-> m, score |-> score]}

(* --------------------------- core.Task JSON --------------------------- *)
\* Task.ToJSON: every field of the struct; the fields fixed at submission
\* are functions of the id
ToJSON(id, row) == [id |-> id, status |-> row.status, result |-> row.result,
                    error |-> row.error, retry_count |-> row.retry_count,
                    updated_at |-> row.updated_at, started_at |-> row.started_at,
                    completed_at |-> row.completed_at]

\* TaskFromJSON: the struct a worker holds
TaskFromJSON(json) == [ID |-> json.id, Status |-> json.status, Result |-> json.result,
                       Error |-> json.error, RetryCount |-> json.retry_count,
                       MaxRetries |-> TaskMaxRetries[json.id],
                       Type |-> TaskType[json.id],
                       UpdatedAt |-> json.updated_at, StartedAt |-> json.started_at,
                       CompletedAt |-> json.completed_at]

\* Task.ToJSON of a struct obtained by TaskFromJSON
StructToJSON(task) == [id |-> task.ID, status |-> task.Status, result |-> task.Result,
                       error |-> task.Error, retry_count |-> task.RetryCount,
                       updated_at |-> task.UpdatedAt, started_at |-> task.StartedAt,
                       completed_at |-> task.CompletedAt]

(* ----------------------------- State Store ---------------------------- *)
\* NewTask + CreateTask: the row inserted for a task
NewTaskRow(t) == [status |-> TaskStatusPending, result |-> NULL, error |-> NULL,
                  retry_count |-> 0, updated_at |-> now,
                  started_at |-> NoTime, completed_at |-> NoTime]

\* NewWorkflow + CreateWorkflow: the row inserted for a workflow
NewWorkflowRow == [status |-> WorkflowStatusPending, started_at |-> NoTime,
                   completed_at |-> NoTime, updated_at |-> now]

\* UpdateWorkflowStatus: UPDATE workflows ... WHERE id = $n
UpdateWorkflowStatus(wfs, id, status) ==
  IF id \notin DOMAIN wfs THEN wfs
  ELSE IF status = WorkflowStatusRunning
    THEN [wfs EXCEPT ![id] = [@ EXCEPT !.status = status, !.started_at = now,
                                       !.updated_at = now]]
  ELSE IF status \in {WorkflowStatusCompleted, WorkflowStatusFailed, WorkflowStatusCancelled}
    THEN [wfs EXCEPT ![id] = [@ EXCEPT !.status = status, !.completed_at = now,
                                       !.updated_at = now]]
  ELSE [wfs EXCEPT ![id] = [@ EXCEPT !.status = status, !.updated_at = now]]

\* an update whose completed case does not write the result column
UpdateTaskStatus_CompletedWithoutResult(tbl, id, status, result, errorMsg) ==
  IF id \notin DOMAIN tbl THEN tbl
  ELSE IF status = TaskStatusRunning
    THEN [tbl EXCEPT ![id] = [@ EXCEPT !.status = status, !.started_at = now,
                                       !.updated_at = now]]
  ELSE IF status = TaskStatusCompleted
    THEN [tbl EXCEPT ![id] = [@ EXCEPT !.status = status,
                                       !.completed_at = now, !.updated_at = now]]
  ELSE IF status = TaskStatusFailed
    THEN [tbl EXCEPT ![id] = [@ EXCEPT !.status = status, !.error = errorMsg,
                                       !.completed_at = now, !.updated_at = now]]
  ELSE IF status = TaskStatusRetrying
    THEN [tbl EXCEPT ![id] = [@ EXCEPT !.status = status,
                                       !.retry_count = @ + 1, !.updated_at = now]]
  ELSE [tbl EXCEPT ![id] = [@ EXCEPT !.status = status, !.updated_at = now]]

\* UpdateTaskStatus: UPDATE tasks ... WHERE id = $n, by status
UpdateTaskStatus(tbl, id, status, result, errorMsg) ==
  IF id \notin DOMAIN tbl THEN tbl
  ELSE IF status = TaskStatusRunning
    THEN [tbl EXCEPT ![id] = [@ EXCEPT !.status = status, !.started_at = now,
                                       !.updated_at = now]]
  ELSE IF status = TaskStatusCompleted
    THEN [tbl EXCEPT ![id] = [@ EXCEPT !.status = status, !.result = result,
                                       !.completed_at = now, !.updated_at = now]]
  ELSE IF status = TaskStatusFailed
    THEN [tbl EXCEPT ![id] = [@ EXCEPT !.status = status, !.error = errorMsg,
                                       !.completed_at = now, !.updated_at = now]]
  ELSE IF status = TaskStatusRetrying
    THEN [tbl EXCEPT ![id] = [@ EXCEPT !.status = status,
                                       !.retry_count = @ + 1, !.updated_at = now]]
  ELSE [tbl EXCEPT ![id] = [@ EXCEPT !.status = status, !.updated_at = now]]


\* GetPendingTasks, the part for one workflow: ids of the rows with status
\* pending or retrying, ORDER BY priority DESC, created_at ASC
PendingOf(tbl, w) ==
  {t \in WorkflowTaskIds(w) :
     t \in DOMAIN tbl /\ tbl[t].status \in {TaskStatusPending, TaskStatusRetrying}}

\* ORDER BY created_at ASC alone
Before_CreatedAtOnly(t, u) ==
  TaskCreatedSeq[t] < TaskCreatedSeq[u]

Before(t, u) ==
  \/ TaskPriority[t] > TaskPriority[u]
  \/ TaskPriority[t] = TaskPriority[u] /\ TaskCreatedSeq[t] < TaskCreatedSeq[u]

RECURSIVE OrderSet(_)
OrderSet(S) ==
  IF S = {} THEN <<>>
  ELSE LET first == CHOOSE t \in S : \A u \in S \ {t} : Before(t, u)
       IN <<first>> \o OrderSet(S \ {first})

GetPendingTasks(tbl, w) == OrderSet(PendingOf(tbl, w))

(* ------------------------------ Work Queue ---------------------------- *)
\* time.Duration is an int64 count of nanoseconds. A value is held here as
\* the sequence of its eight bytes, least significant first, in two's
\* complement.
Int64(x) ==
  <<x % 256, (x \div 256) % 256, (x \div 65536) % 256, (x \div 16777216) % 256, 0, 0, 0, 0>>

\* 1<<uint(n) on an int64: the bit n, and 0 when n is 64 or more
Shl1(n) ==
  LET RECURSIVE ShlFrom(_)
      ShlFrom(i) ==
        IF i > 8 THEN <<>>
        ELSE <<IF n \div 8 = i - 1 THEN Pow2(n % 8) ELSE 0>> \o ShlFrom(i + 1)
  IN ShlFrom(1)

\* a * b on int64, the low 64 bits of the product. Column(k, i): the sum of
\* the byte products that fall on byte k; MulFrom(k, carry): the bytes k..8,
\* given what the bytes below carry into byte k
Mul64(a, b) ==
  LET RECURSIVE Column(_, _)
      Column(k, i) == IF i > k THEN 0 ELSE a[i] * b[k + 1 - i] + Column(k, i + 1)
      RECURSIVE MulFrom(_, _)
      MulFrom(k, carry) ==
        IF k > 8 THEN <<>>
        ELSE LET t == Column(k, 1) + carry
             IN <<t % 256>> \o MulFrom(k + 1, t \div 256)
  IN MulFrom(1, 0)

\* a < 0, a > b on int64
Negative(a) == a[8] >= 128
Gt64(a, b) ==
  IF Negative(a) # Negative(b) THEN Negative(b)
  ELSE \E i \in 1..8 : a[i] > b[i] /\ \A j \in (i + 1)..8 : a[j] = b[j]

\* -a on int64: the complement plus one
RECURSIVE NegFrom(_, _, _)
NegFrom(a, k, carry) ==
  IF k > 8 THEN <<>>
  ELSE LET t == 255 - a[k] + carry
       IN <<t % 256>> \o NegFrom(a, k + 1, t \div 256)
Neg64(a) == NegFrom(a, 1, 1)

\* time.Second, time.Minute
NanosPerSecond == 1000000000
Second == Int64(NanosPerSecond)
Minute == Mul64(Int64(60), Second)

\* a / 1000 and a % 1000 for a >= 0, by long division from byte k downwards
\* with remainder r of the bytes above
Div1000(a) ==
  LET RECURSIVE DivFrom(_, _)
      DivFrom(k, r) ==
        IF k = 0 THEN [q |-> <<>>, r |-> r]
        ELSE LET t == r * 256 + a[k]
                 low == DivFrom(k - 1, t % 1000)
             IN [q |-> low.q \o <<t \div 1000>>, r |-> low.r]
  IN DivFrom(8, 0)

\* the whole seconds in a Duration d >= 0 (the integer its low four bytes
\* stand for), and whether nanoseconds are left
WholeSeconds(d) ==
  LET micro == Div1000(d)
      milli == Div1000(micro.q)
      sec == Div1000(milli.q).q
  IN [q |-> sec[1] + 256 * sec[2] + 65536 * sec[3] + 16777216 * sec[4],
      r |-> micro.r # 0 \/ milli.r # 0 \/ Div1000(milli.q).r # 0]

\* time.Now().Add(d).Unix() - time.Now().Unix() when time.Now() is a whole
\* second, for a Duration d of less than 2^31 seconds
DurationSeconds(d) ==
  IF Negative(d)
    THEN LET m == WholeSeconds(Neg64(d)) IN 0 - m.q - (IF m.r THEN 1 ELSE 0)
    ELSE WholeSeconds(d).q

\* NewWorkflow: Config.RetryPolicy
NewWorkflowRetryPolicy ==
  [MaxAttempts |-> 3, InitialDelay |-> Second, MaxDelay |-> Mul64(Minute, Int64(5)),
   BackoffFactor |-> 2]

\* calculateBackoff: 2s * 2^retryCount, 5 minutes when that is more
calculateBackoff(retryCount) ==
  LET base == Mul64(Second, Int64(2))
      backoff == Mul64(base, Shl1(retryCount))
  IN IF Gt64(backoff, Mul64(Minute, Int64(5))) THEN Mul64(Minute, Int64(5)) ELSE backoff

\* the seconds by which the retryAt of NackTask is after time.Now(), for the
\* retry counts from 0 on of the tasks of the model, each computed once
RetryDelays ==
  LET RECURSIVE DelaysUpTo(_)
      DelaysUpTo(n) ==
        IF n < 0 THEN <<>>
        ELSE DelaysUpTo(n - 1) \o <<DurationSeconds(calculateBackoff(n))>>
  IN DelaysUpTo(MaxRetryCount + 2)

\* NackTask: time.Now().Add(q.calculateBackoff(task.RetryCount)).Unix(),
\* less time.Now().Unix()
RetryAfterSeconds(retryCount) ==
  IF retryCount + 1 \in DOMAIN RetryDelays
    THEN RetryDelays[retryCount + 1]
    ELSE DurationSeconds(calculateBackoff(retryCount))

\* EnqueueTask: LPUSH queue:<type>
EnqueueTask(rd, id, json) == [rd EXCEPT ![TaskType[id]] = LPush(@, json)]

\* an acknowledgement whose LREM has count 0: every occurrence is removed
AckTask_RemoveEveryOccurrence(pr, task) ==
  LET Other(x) == x # StructToJSON(task)
  IN [pr EXCEPT ![task.Type] = SelectSeq(@, Other)]

\* AckTask: LREM processing:<type> 1 <json>
AckTask(pr, task) == [pr EXCEPT ![task.Type] = LRem1(@, StructToJSON(task))]

\* NackTask, the processing list after the pipeline: LREM processing:<type> 1 <json>
NackProcessing(pr, task) == [pr EXCEPT ![task.Type] = LRem1(@, StructToJSON(task))]

\* the retry set when the budget test reads RetryCount <= MaxRetries
NackRetry_BudgetOffByOne(rt, task) ==
  IF task.RetryCount <= task.MaxRetries
    THEN [rt EXCEPT ![task.Type] =
            ZAdd(@, StructToJSON(task), now + RetryAfterSeconds(task.RetryCount))]
    ELSE rt

\* NackTask, the retry set after the pipeline
NackRetry(rt, task) ==
  IF task.RetryCount < task.MaxRetries
    THEN [rt EXCEPT ![task.Type] =
            ZAdd(@, StructToJSON(task), now + RetryAfterSeconds(task.RetryCount))]
    ELSE rt

\* NackTask, the dead-letter list after the pipeline
NackDeadLetter(dl, task) ==
  IF task.RetryCount < task.MaxRetries
    THEN dl
    ELSE [dl EXCEPT ![task.Type] = LPush(@, StructToJSON(task))]

\* ProcessRetries: the entries ZRANGEBYSCORE retry:<type> 0 now ranges over
DueRetries(rt, ty) == {z \in rt[ty] : 0 <= z.score /\ z.score <= now}

\* ProcessRetries: Count of the ZRangeBy, the LIMIT of the range query
ZRangeCount == 100

\* the orders of the members of one score (the order of their bytes, left open)
RECURSIVE ScoreTies(_)
ScoreTies(S) ==
  IF S = {} THEN {<<>>}
  ELSE UNION {{<<z>> \o o : o \in ScoreTies(S \ {z})} : z \in S}

\* the members of S with a score in lo..hi, by ascending score
RECURSIVE ByScore(_, _, _)
ByScore(S, lo, hi) ==
  IF lo > hi THEN {<<>>}
  ELSE IF lo = hi THEN ScoreTies({z \in S : z.score = lo})
  ELSE LET mid == (lo + hi) \div 2
       IN {p \o o : p \in ByScore(S, lo, mid), o \in ByScore(S, mid + 1, hi)}

\* the results ZRANGEBYSCORE retry:<type> 0 now LIMIT 0 100 can have: the due
\* members by ascending score, the first ZRangeCount of them
RetryOrders(rt, ty) ==
  {SubSeq(o, 1, IF Len(o) < ZRangeCount THEN Len(o) ELSE ZRangeCount) :
     o \in ByScore(DueRetries(rt, ty), 0, now)}

\* ProcessRetries, the loop: ZREM retry:<type>, LPUSH queue:<type>
\* (each LPUSH makes a new head: the last entry of the range ends up first)
RequeueAll(list, order) ==
  [i \in 1..Len(order) |-> order[Len(order) + 1 - i].member] \o list

(* ------------------------------ Scheduler ----------------------------- *)
\* CanExecute without its loop over the dependencies
CanExecute_IgnoringDependencies(t, row, completedTasks) ==
  row.status \in {TaskStatusPending, TaskStatusRetrying}

\* Task.CanExecute: completedTasks holds the ids of the completed tasks,
\* the dependencies are looked up in it as they are stored (task names)
CanExecute(t, row, completedTasks) ==
  /\ \A dep \in TaskDependencies[t] : dep \in completedTasks
  /\ row.status \in {TaskStatusPending, TaskStatusRetrying}

\* scheduleWorkflowTasks: completedTasks[task.ID] = true
CompletedTasks(tbl, w) ==
  {t \in WorkflowTaskIds(w) : t \in DOMAIN tbl /\ tbl[t].status = TaskStatusCompleted}

\* tasksToSchedule without the check of the workflow's status
TasksToSchedule_AnyWorkflowStatus(wfs, tbl, snap, w) ==
  IF w \notin DOMAIN wfs
    THEN <<>>
    ELSE SelectSeq(GetPendingTasks(snap, w),
                   LAMBDA t : CanExecute(t, snap[t], CompletedTasks(tbl, w)))

\* scheduleWorkflowTasks: tasksToSchedule, in the order of GetPendingTasks
TasksToSchedule(wfs, tbl, snap, w) ==
  IF w \notin DOMAIN wfs
       \/ wfs[w].status \notin {WorkflowStatusPending, WorkflowStatusRunning}
    THEN <<>>
    ELSE SelectSeq(GetPendingTasks(snap, w),
                   LAMBDA t : CanExecute(t, snap[t], CompletedTasks(tbl, w)))

\* the calls of one scheduling tick that return an error: GetPendingTasks;
\* GetWorkflow and UpdateWorkflowStatus, by workflow; EnqueueTask and
\* UpdateTaskStatus, by task
NoFailures ==
  [getPendingTasks |-> FALSE, getWorkflow |-> {}, updateWorkflow |-> {},
   enqueue |-> {}, updateTask |-> {}]

\* an enqueue loop that returns at the first EnqueueTask error
RECURSIVE EnqueueLoopWith_ReturnAtError(_, _, _, _)
EnqueueLoopWith_ReturnAtError(st, snap, sched, f) ==
  IF sched = <<>> THEN st
  ELSE LET t == Head(sched)
       IN IF t \in f.enqueue
            THEN st
            ELSE EnqueueLoopWith_ReturnAtError(
                   [st EXCEPT
                      !.rd = EnqueueTask(@, t, ToJSON(t, snap[t])),
                      !.tk = IF t \in f.updateTask THEN @
                             ELSE UpdateTaskStatus(@, t, TaskStatusPending, NULL, "")],
                   snap, Tail(sched), f)

\* scheduleWorkflowTasks: the enqueue loop over tasksToSchedule;
\* snap is the result of GetPendingTasks the tick started with.  An
\* EnqueueTask error is logged and the loop goes on with the next task; an
\* UpdateTaskStatus error is logged
RECURSIVE EnqueueLoopWith(_, _, _, _)
EnqueueLoopWith(st, snap, sched, f) ==
  IF sched = <<>> THEN st
  ELSE LET t == Head(sched)
       IN IF t \in f.enqueue
            THEN EnqueueLoopWith(st, snap, Tail(sched), f)
            ELSE EnqueueLoopWith(
                   [st EXCEPT
                      !.rd = EnqueueTask(@, t, ToJSON(t, snap[t])),
                      !.tk = IF t \in f.updateTask THEN @
                             ELSE UpdateTaskStatus(@, t, TaskStatusPending, NULL, "")],
                   snap, Tail(sched), f)

EnqueueLoop(st, snap, sched) == EnqueueLoopWith(st, snap, sched, NoFailures)

\* scheduleWorkflowTasks: a GetWorkflow error and an UpdateWorkflowStatus
\* error are returned before anything is enqueued
scheduleWorkflowTasksWith(st, snap, w, f) ==
  IF w \in f.getWorkflow THEN st
  ELSE LET sched == TasksToSchedule(st.wf, st.tk, snap, w)
       IN IF sched = <<>> THEN st
          ELSE IF st.wf[w].status = WorkflowStatusPending /\ w \in f.updateWorkflow THEN st
          ELSE EnqueueLoopWith(
                 [st EXCEPT !.wf = IF st.wf[w].status = WorkflowStatusPending
                                     THEN UpdateWorkflowStatus(@, w, WorkflowStatusRunning)
                                     ELSE @],
                 snap, sched, f)

scheduleWorkflowTasks(st, snap, w) == scheduleWorkflowTasksWith(st, snap, w, NoFailures)

\* schedulePendingTasks: the loop over the workflows that own a pending
\* task; an error of scheduleWorkflowTasks is logged and the loop goes on
RECURSIVE ScheduleLoopWith(_, _, _, _)
ScheduleLoopWith(st, snap, order, f) ==
  IF order = <<>> THEN st
  ELSE ScheduleLoopWith(scheduleWorkflowTasksWith(st, snap, Head(order), f),
                        snap, Tail(order), f)

ScheduleLoop(st, snap, order) == ScheduleLoopWith(st, snap, order, NoFailures)

\* the keys of workflowTasks; Go ranges over a map in any order
WorkflowOrders(tbl) ==
  LET ws == {w \in AllWorkflowIds : PendingOf(tbl, w) # {}}
      n == Cardinality(ws)
  IN {o \in [1..n -> ws] : \A i, j \in 1..n : i # j => o[i] # o[j]}


(* ------------------------------- Worker ------------------------------- *)
NoTask == [ID |-> NULL]
IdleWorker == [pc |-> "dequeue", task |-> NoTask, status |-> NULL]

\* the routes setupRoutes registers under /api/v1
Routes == {<<"POST", "/workflows">>, <<"GET", "/workflows/:id">>,
           <<"PUT", "/workflows/:id/cancel">>, <<"GET", "/workflows">>,
           <<"GET", "/tasks/:id">>, <<"GET", "/workflows/:id/tasks">>,
           <<"GET", "/health">>, <<"GET", "/metrics">>}

\* notifyTaskStatus: POST <scheduler>/api/v1/tasks/<id>/status.  No route
\* of the server matches, the router's NoRoute handler answers with the
\* dashboard page: the tasks table after the request is the table before
notifyTaskStatus(tbl, taskID, status, result, errorMsg) == tbl

(* ------------------------------- actions ------------------------------ *)
NoTick == [done |-> FALSE, wf |-> <<>>, tk |-> <<>>, pushed |-> {}, failures |-> NoFailures]

(* --------------------------- worker registry -------------------------- *)
\* worker processes (Worker.id) and the task types they serve
WorkerIds == {"r1", "r2"}
WorkerTaskTypes == [id \in WorkerIds |-> IF id = "r1" THEN {"generic", "etl"} ELSE {"generic"}]

\* RegisterWorker, UpdateWorkerHeartbeat: SET worker:<id> ... EX 5 minutes
WorkerTTL == 300
\* GetActiveWorkers: time.Minute*2
HeartbeatTimeout == 120

\* GET worker:<id> finds the key: it was set and has not expired
KeyExists(info, id) == id \in DOMAIN info /\ now < info[id].expires

\* SET worker:<id> <WorkerInfo with LastHeartbeat = now> EX 5 minutes
SetWorkerInfo(info, id) ==
  [i \in DOMAIN info \cup {id} |->
     IF i = id THEN [LastHeartbeat |-> now, expires |-> now + WorkerTTL] ELSE info[i]]

\* a staleness test that also drops a heartbeat of exactly two minutes ago
IsStale_AtTwoMinutes(info, id) == now - info[id].LastHeartbeat >= HeartbeatTimeout

\* GetActiveWorkers: time.Since(workerInfo.LastHeartbeat) > time.Minute*2
IsStale(info, id) == now - info[id].LastHeartbeat > HeartbeatTimeout

InitRegistry ==
  /\ workers = [ty \in TaskTypes |-> {}]
  /\ workerInfo = <<>>
  /\ active = [type |-> NULL, ids |-> {}, call |-> 0]
  /\ heartbeat = [id \in WorkerIds |-> [pc |-> "off", at |-> 0, failed |-> FALSE]]

(* --------------------------- scheduler loops --------------------------- *)
\* the goroutines of Scheduler.Start
LoopIds == {"scheduleWorkflows", "processRetries", "monitorWorkflows"}

\* after Scheduler.Start: wg.Add(3), every loop is at its select
InitLoops ==
  /\ stopCh = FALSE
  /\ ctxDone = FALSE
  /\ loop = [l \in LoopIds |-> [pc |-> "select", ticker |-> FALSE]]
  /\ wg = Cardinality(LoopIds)
  /\ stopPc = "idle"
  /\ main = [pc |-> "signal", starter |-> "started", server |-> "run", wg |-> 2]

\* the ids of the entries by which list rd2 is longer than rd1 at its head
NewIds(rd1, rd2) ==
  UNION {{rd2[ty][i].id : i \in 1..(Len(rd2[ty]) - Len(rd1[ty]))} : ty \in TaskTypes}

Init ==
  /\ now = 0
  /\ workflows = <<>>
  /\ tasks = <<>>
  /\ ready = [ty \in TaskTypes |-> <<>>]
  /\ processing = [ty \in TaskTypes |-> <<>>]
  /\ retry = [ty \in TaskTypes |-> {}]
  /\ dead_letter = [ty \in TaskTypes |-> <<>>]
  /\ worker = [w \in Workers |-> IdleWorker]
  /\ crashes = 0
  /\ updates = 0
  /\ response = [w \in AllWorkflowIds |-> "none"]
  /\ payload = [t \in AllTaskIds |-> "unread"]
  /\ lastFailed = [t \in AllTaskIds |-> -1]
  /\ lastTick = NoTick
  /\ InitRegistry
  /\ InitLoops
  /\ call = NoCall
  /\ tick = NoTickSteps

\* time passes
Advance ==
  /\ now < MaxTime
  /\ now' = now + 1
  /\ UNCHANGED <<workflows, tasks, ready, processing, retry, dead_letter, worker, crashes, updates, response, payload, lastFailed, lastTick, workers, workerInfo, active, stopCh, ctxDone, loop, wg, stopPc, call, tick, heartbeat, main>>

\* createWorkflow -> Scheduler.SubmitWorkflow: CreateWorkflow, then
\* CreateTask for every task of the request.  createWorkflowFails: the
\* INSERT of the workflow row fails (SubmitWorkflow returns the error, the
\* handler answers 500); failed: the tasks whose INSERT fails (the error is
\* logged, the loop goes on, SubmitWorkflow returns nil, the answer is 201)
SubmitWorkflowWith(w, createWorkflowFails, failed) ==
  /\ w \notin DOMAIN workflows
  /\ IF createWorkflowFails
       THEN /\ response' = [response EXCEPT ![w] = "500"]
            /\ UNCHANGED <<workflows, tasks, workers, workerInfo, active, stopCh, ctxDone, loop, wg, stopPc, call, tick, heartbeat, main>>
       ELSE /\ workflows' = workflows @@ (w :> NewWorkflowRow)
            /\ tasks' = tasks @@ [t \in WorkflowTaskIds(w) \ failed |-> NewTaskRow(t)]
            /\ response' = [response EXCEPT ![w] = "201"]
  /\ UNCHANGED <<now, ready, processing, retry, dead_letter, worker, crashes, updates, payload, lastFailed, lastTick, workers, workerInfo, active, stopCh, ctxDone, loop, wg, stopPc, call, tick, heartbeat, main>>

\* a submission while the State Store takes every INSERT
SubmitWorkflow(w) == SubmitWorkflowWith(w, FALSE, {})

\* cancelWorkflow -> Scheduler.CancelWorkflow
CancelWorkflow(w) ==
  /\ w \in DOMAIN workflows
  /\ workflows' = UpdateWorkflowStatus(workflows, w, WorkflowStatusCancelled)
  /\ UNCHANGED <<now, tasks, ready, processing, retry, dead_letter, worker, crashes, updates, response, payload, lastFailed, lastTick, workers, workerInfo, active, stopCh, ctxDone, loop, wg, stopPc, call, tick, heartbeat, main>>

\* schedulePendingTasks with the errors f: a GetPendingTasks error is
\* returned at once; everything but the position of the loop
SchedulePendingTasksBody(f) ==
  IF f.getPendingTasks
    THEN /\ lastTick' = [done |-> TRUE, wf |-> <<>>, tk |-> <<>>, pushed |-> {},
                         failures |-> f]
         /\ UNCHANGED <<now, workflows, tasks, ready, processing, retry, dead_letter, worker, crashes, updates, response, payload, lastFailed, workers, workerInfo, active, stopCh, ctxDone, wg, stopPc, call, tick, heartbeat, main>>
    ELSE \E order \in WorkflowOrders(tasks) :
           LET st == ScheduleLoopWith([wf |-> workflows, tk |-> tasks, rd |-> ready],
                                      tasks, order, f)
           IN /\ \A ty \in TaskTypes : Len(st.rd[ty]) <= MaxReady
              /\ workflows' = st.wf
              /\ tasks' = st.tk
              /\ ready' = st.rd
              /\ lastTick' = [done |-> TRUE,
                              wf |-> [w \in DOMAIN workflows |-> workflows[w].status],
                              tk |-> [t \in DOMAIN tasks |-> tasks[t].status],
                              pushed |-> NewIds(ready, st.rd),
                              failures |-> f]
              /\ UNCHANGED <<now, processing, retry, dead_letter, worker, crashes, updates, response, payload, lastFailed, workers, workerInfo, active, stopCh, ctxDone, wg, stopPc, call, tick, heartbeat, main>>

\* scheduleWorkflows, one tick: schedulePendingTasks, every call succeeding
SchedulePendingTasks ==
  /\ SchedulePendingTasksBody(NoFailures)
  /\ UNCHANGED loop

\* processRetries, one tick: ProcessRetries for each of the four task types
\* the loop names ("etl", "ml_training", "ci", "generic")
ProcessRetriesTick ==
  \E orders \in [TaskTypes -> UNION {RetryOrders(retry, ty) : ty \in TaskTypes}] :
    /\ \A ty \in TaskTypes : orders[ty] \in RetryOrders(retry, ty)
    /\ retry' = [ty \in TaskTypes |->
                   retry[ty] \ {orders[ty][i] : i \in 1..Len(orders[ty])}]
    /\ ready' = [ty \in TaskTypes |-> RequeueAll(ready[ty], orders[ty])]
    /\ UNCHANGED <<now, workflows, tasks, processing, dead_letter, worker, crashes, updates, response, payload, lastFailed, lastTick, workers, workerInfo, active, stopCh, ctxDone, loop, wg, stopPc, call, tick, heartbeat, main>>

\* monitorWorkflows, one tick: checkWorkflowCompletion returns nil
CheckWorkflowCompletion ==
  /\ UNCHANGED vars

\* a dequeue that pops the entry (RPOP) and hands it to the worker without
\* the push onto processing:<type>
DequeueTask_PopWithoutPush(w) ==
  LET ty == WorkerType[w]
  IN /\ worker[w].pc = "dequeue"
     /\ ready[ty] # <<>>
     /\ LET json == ready[ty][Len(ready[ty])]
        IN /\ ready' = [ready EXCEPT ![ty] = SubSeq(@, 1, Len(@) - 1)]
           /\ worker' = [worker EXCEPT ![w] =
                           [pc |-> "notify_running", task |-> TaskFromJSON(json),
                            status |-> NULL]]
     /\ UNCHANGED <<now, workflows, tasks, processing, retry, dead_letter, crashes, updates, response, payload, lastFailed, lastTick, workers, workerInfo, active, stopCh, ctxDone, loop, wg, stopPc, call, tick, heartbeat, main>>

\* processTaskType: DequeueTask (BRPOPLPUSH queue:<type> processing:<type>,
\* one command of the Redis server); every entry of queue:<type> was written
\* by Task.ToJSON, so TaskFromJSON does not fail on it
DequeueTask(w) ==
  LET ty == WorkerType[w]
  IN /\ worker[w].pc = "dequeue"
     /\ ready[ty] # <<>>
     /\ LET json == ready[ty][Len(ready[ty])]
        IN /\ ready' = [ready EXCEPT ![ty] = SubSeq(@, 1, Len(@) - 1)]
           /\ processing' = [processing EXCEPT ![ty] = LPush(@, json)]
           /\ worker' = [worker EXCEPT ![w] =
                           [pc |-> "notify_running", task |-> TaskFromJSON(json),
                            status |-> NULL]]
     /\ UNCHANGED <<now, workflows, tasks, retry, dead_letter, crashes, updates, response, payload, lastFailed, lastTick, workers, workerInfo, active, stopCh, ctxDone, loop, wg, stopPc, call, tick, heartbeat, main>>

\* executeTask: notifyTaskStatus(task.ID, "running", nil, "")
NotifyRunning(w) ==
  /\ worker[w].pc = "notify_running"
  /\ tasks' = notifyTaskStatus(tasks, worker[w].task.ID, TaskStatusRunning, NULL, "")
  /\ worker' = [worker EXCEPT ![w].pc = "run", ![w].status = TaskStatusRunning]
  /\ UNCHANGED <<now, workflows, ready, processing, retry, dead_letter, crashes, updates, response, payload, lastFailed, lastTick, workers, workerInfo, active, stopCh, ctxDone, loop, wg, stopPc, call, tick, heartbeat, main>>

\* runTask: the body of the task's type returns an error exactly when the
\* payload lacks a key it reads (command; source_url, target_url), the same
\* on every attempt; the outcomes (TRUE: no error) this run can have
runTask(task) ==
  IF payload[task.ID] = "unread" THEN BOOLEAN ELSE {payload[task.ID] = "valid"}

\* executeTask: result, err := runTask(task), then NackTask or AckTask
RunTask(w) ==
  /\ worker[w].pc = "run"
  /\ LET task == worker[w].task
     IN \E ok \in runTask(task) :
          /\ payload' = [payload EXCEPT ![task.ID] = IF ok THEN "valid" ELSE "invalid"]
          /\ IF ok
               THEN /\ processing' = AckTask(processing, task)
                    /\ UNCHANGED <<retry, dead_letter, lastFailed, workers, workerInfo, active, stopCh, ctxDone, loop, wg, stopPc, call, tick, heartbeat, main>>
                    /\ worker' = [worker EXCEPT ![w].pc = "notify",
                                                ![w].status = TaskStatusCompleted]
             ELSE IF task.RetryCount < task.MaxRetries
               THEN /\ processing' = NackProcessing(processing, task)
                    /\ retry' = NackRetry(retry, task)
                    /\ dead_letter' = NackDeadLetter(dead_letter, task)
                    /\ lastFailed' = [lastFailed EXCEPT ![task.ID] = task.RetryCount]
                    /\ worker' = [worker EXCEPT ![w].pc = "notify",
                                                ![w].status = TaskStatusRetrying]
             ELSE /\ processing' = AckTask(processing, task)
                  /\ lastFailed' = [lastFailed EXCEPT ![task.ID] = task.RetryCount]
                  /\ UNCHANGED <<retry, dead_letter, workers, workerInfo, active, stopCh, ctxDone, loop, wg, stopPc, call, tick, heartbeat, main>>
                  /\ worker' = [worker EXCEPT ![w].pc = "notify",
                                              ![w].status = TaskStatusFailed]
  /\ UNCHANGED <<now, workflows, tasks, ready, crashes, updates, response, lastTick, workers, workerInfo, active, stopCh, ctxDone, loop, wg, stopPc, call, tick, heartbeat, main>>

\* executeTask: the notifyTaskStatus that follows AckTask / NackTask
NotifyOutcome(w) ==
  /\ worker[w].pc = "notify"
  /\ LET st == worker[w].status
     IN tasks' = notifyTaskStatus(tasks, worker[w].task.ID, st,
                     IF st = TaskStatusCompleted THEN "result" ELSE NULL,
                     IF st = TaskStatusCompleted THEN "" ELSE "error")
  /\ worker' = [worker EXCEPT ![w] = IdleWorker]
  /\ UNCHANGED <<now, workflows, ready, processing, retry, dead_letter, crashes, updates, response, payload, lastFailed, lastTick, workers, workerInfo, active, stopCh, ctxDone, loop, wg, stopPc, call, tick, heartbeat, main>>

\* the worker process dies inside executeTask and is started again
WorkerCrash(w) ==
  /\ worker[w].pc # "dequeue"
  /\ crashes < MaxCrashes
  /\ crashes' = crashes + 1
  /\ worker' = [worker EXCEPT ![w] = IdleWorker]
  /\ UNCHANGED <<now, workflows, tasks, ready, processing, retry, dead_letter, updates, response, payload, lastFailed, lastTick, workers, workerInfo, active, stopCh, ctxDone, loop, wg, stopPc, call, tick, heartbeat, main>>

Next ==
  \/ Advance
  \/ \E w \in WorkflowIds : SubmitWorkflow(w)
  \/ \E w \in WorkflowIds : CancelWorkflow(w)
  \/ SchedulePendingTasks
  \/ ProcessRetriesTick
  \/ CheckWorkflowCompletion
  \/ \E w \in Workers : DequeueTask(w)
  \/ \E w \in Workers : NotifyRunning(w)
  \/ \E w \in Workers : RunTask(w)
  \/ \E w \in Workers : NotifyOutcome(w)
  \/ \E w \in Workers : WorkerCrash(w)

Spec == Init /\ [][Next]_vars

\* the three scheduler loops tick for ever, time passes, and every worker
\* goroutine goes on with its loop
Fairness ==
  /\ WF_vars(Advance)
  /\ WF_vars(SchedulePendingTasks)
  /\ WF_vars(ProcessRetriesTick)
  /\ WF_vars(CheckWorkflowCompletion)
  /\ \A w \in Workers :
       /\ WF_vars(DequeueTask(w))
       /\ WF_vars(NotifyRunning(w))
       /\ WF_vars(RunTask(w))
       /\ WF_vars(NotifyOutcome(w))

FairSpec == Spec /\ Fairness

\* a client of the State Store applies a status update: UpdateTaskStatus
\* with the arguments a status report carries
StoreUpdateTaskStatus(t, status) ==
  /\ t \in DOMAIN tasks
  /\ status = TaskStatusRetrying => tasks[t].retry_count < MaxRetryCount
  /\ updates < MaxUpdates
  /\ updates' = updates + 1
  /\ tasks' = UpdateTaskStatus(tasks, t, status,
                  IF status = TaskStatusCompleted THEN "result" ELSE NULL,
                  IF status \in {TaskStatusFailed, TaskStatusRetrying} THEN "error" ELSE "")
  /\ UNCHANGED <<now, workflows, ready, processing, retry, dead_letter, worker, crashes, response, payload, lastFailed, lastTick, workers, workerInfo, active, stopCh, ctxDone, loop, wg, stopPc, call, tick, heartbeat, main>>

NextStore ==
  \/ Advance
  \/ \E w \in WorkflowIds : SubmitWorkflow(w)
  \/ \E w \in WorkflowIds : CancelWorkflow(w)
  \/ SchedulePendingTasks
  \/ CheckWorkflowCompletion
  \/ \E t \in TaskIds :
       \E status \in {TaskStatusRunning, TaskStatusCompleted,
                       TaskStatusRetrying, TaskStatusFailed} :
         StoreUpdateTaskStatus(t, status)

\* the orchestrator and its State Store, with status updates arriving
SpecStore == Init /\ [][NextStore]_vars

FairSpecStore ==
  /\ SpecStore
  /\ WF_vars(Advance)
  /\ WF_vars(SchedulePendingTasks)
  /\ WF_vars(CheckWorkflowCompletion)

\* the entries of the four channels of a type
ChannelSize(ty) ==
  Len(ready[ty]) + Len(processing[ty]) + Cardinality(retry[ty]) + Len(dead_letter[ty])

\* the tasks the producers of the queue enqueue
QueueTaskIds == {"A"}

\* a producer enqueues task t as the scheduling tick does for a row whose
\* retry_count is n: EnqueueTask
ProducerEnqueue(t, n) ==
  /\ ChannelSize(TaskType[t]) < MaxReady
  /\ ready' = EnqueueTask(ready, t,
                 ToJSON(t, [NewTaskRow(t) EXCEPT
                              !.retry_count = n,
                              !.status = IF n > 0 THEN TaskStatusRetrying
                                                  ELSE TaskStatusPending]))
  /\ UNCHANGED <<now, workflows, tasks, processing, retry, dead_letter, worker, crashes, updates, response, payload, lastFailed, lastTick, workers, workerInfo, active, stopCh, ctxDone, loop, wg, stopPc, call, tick, heartbeat, main>>

\* a consumer gives back the task it holds, whatever its retry count: NackTask
ConsumerNackTask(w) ==
  /\ worker[w].pc = "run"
  /\ LET task == worker[w].task
     IN /\ processing' = NackProcessing(processing, task)
        /\ retry' = NackRetry(retry, task)
        /\ dead_letter' = NackDeadLetter(dead_letter, task)
  /\ worker' = [worker EXCEPT ![w] = IdleWorker]
  /\ UNCHANGED <<now, workflows, tasks, ready, crashes, updates, response, payload, lastFailed, lastTick, workers, workerInfo, active, stopCh, ctxDone, loop, wg, stopPc, call, tick, heartbeat, main>>

NextQueue ==
  \/ Advance
  \/ \E t \in QueueTaskIds : \E n \in 0..TaskMaxRetries[t] : ProducerEnqueue(t, n)
  \/ ProcessRetriesTick
  \/ \E w \in Workers : DequeueTask(w)
  \/ \E w \in Workers : NotifyRunning(w)
  \/ \E w \in Workers : RunTask(w)
  \/ \E w \in Workers : NotifyOutcome(w)
  \/ \E w \in Workers : ConsumerNackTask(w)
  \/ \E w \in Workers : WorkerCrash(w)

\* the Work Queue with its producers and consumers
SpecQueue == Init /\ [][NextQueue]_vars

\* a consumer acknowledges the task it holds, or the one it has just given
\* back (whose entry has left processing): AckTask
ConsumerAckTask(w) ==
  /\ worker[w].pc \in {"run", "notify"}
  /\ processing' = AckTask(processing, worker[w].task)
  /\ worker' = [worker EXCEPT ![w] = IdleWorker]
  /\ UNCHANGED <<now, workflows, tasks, ready, retry, dead_letter, crashes, updates, response, payload, lastFailed, lastTick, workers, workerInfo, active, stopCh, ctxDone, loop, wg, stopPc, call, tick, heartbeat, main>>

NextAck ==
  \/ NextQueue
  \/ \E w \in Workers : ConsumerAckTask(w)

\* the Work Queue with consumers that also acknowledge on their own
SpecAck == Init /\ [][NextAck]_vars

NextMonitor ==
  \/ Advance
  \/ \E w \in WorkflowIds \cup EmptyWorkflowIds : SubmitWorkflow(w)
  \/ SchedulePendingTasks
  \/ CheckWorkflowCompletion

\* submissions, workflows without tasks among them, with the scheduling loop
\* and the completion monitor
SpecMonitor == Init /\ [][NextMonitor]_vars

FairSpecMonitor ==
  /\ SpecMonitor
  /\ WF_vars(Advance)
  /\ WF_vars(SchedulePendingTasks)
  /\ WF_vars(CheckWorkflowCompletion)

NextFanOut ==
  \/ Advance
  \/ \E w \in FanOutWorkflowIds : SubmitWorkflow(w)
  \/ SchedulePendingTasks
  \/ \E w \in Workers : DequeueTask(w)
  \/ \E w \in Workers : NotifyRunning(w)
  \/ \E w \in Workers : RunTask(w)
  \/ \E w \in Workers : NotifyOutcome(w)

\* workflows whose tasks are all ready at once, the scheduler and the workers
SpecFanOut == Init /\ [][NextFanOut]_vars

\* a minute passes
AdvanceMinute ==
  /\ now < 60 * MaxMinutes
  /\ now' = now + 60
  /\ UNCHANGED <<workflows, tasks, ready, processing, retry, dead_letter, worker, crashes, updates, response, payload, lastFailed, lastTick, workers, workerInfo, active, stopCh, ctxDone, loop, wg, stopPc, call, tick, heartbeat, main>>

\* Worker.Start: RegisterWorker, then go w.heartbeat(ctx) in the process just
\* started
RegisterWorker(id) ==
  /\ workerInfo' = SetWorkerInfo(workerInfo, id)
  /\ workers' = [ty \in TaskTypes |->
                   IF ty \in WorkerTaskTypes[id] THEN workers[ty] \cup {id} ELSE workers[ty]]
  /\ heartbeat' = [heartbeat EXCEPT ![id] = [pc |-> "idle", at |-> 0, failed |-> FALSE]]
  /\ UNCHANGED <<now, workflows, tasks, ready, processing, retry, dead_letter, worker, crashes, updates, response, payload, lastFailed, lastTick, active, stopCh, ctxDone, loop, wg, stopPc, call, tick, main>>

\* Worker.heartbeat: UpdateWorkerHeartbeat; when GET does not find the key
\* the call returns an error and writes nothing
UpdateWorkerHeartbeat(id) ==
  /\ KeyExists(workerInfo, id)
  /\ workerInfo' = SetWorkerInfo(workerInfo, id)
  /\ UNCHANGED <<now, workflows, tasks, ready, processing, retry, dead_letter, worker, crashes, updates, response, payload, lastFailed, lastTick, workers, active, stopCh, ctxDone, loop, wg, stopPc, call, tick, heartbeat, main>>

\* GetActiveWorkers: for every member of workers:<type>, SREM when GET finds
\* no key, SREM and DEL when the heartbeat is stale, else the member is
\* part of the answer
GetActiveWorkers(ty) ==
  LET expired == {id \in workers[ty] : ~KeyExists(workerInfo, id)}
      stale == {id \in workers[ty] \ expired : IsStale(workerInfo, id)}
  IN /\ workers' = [workers EXCEPT ![ty] = @ \ (expired \cup stale)]
     /\ workerInfo' = [i \in DOMAIN workerInfo \ stale |-> workerInfo[i]]
     /\ active' = [type |-> ty, ids |-> workers[ty] \ (expired \cup stale),
                   call |-> 1 - active.call]
     /\ UNCHANGED <<now, workflows, tasks, ready, processing, retry, dead_letter, worker, crashes, updates, response, payload, lastFailed, lastTick, stopCh, ctxDone, loop, wg, stopPc, call, tick, heartbeat, main>>

NextRegistry ==
  \/ AdvanceMinute
  \/ \E id \in WorkerIds : RegisterWorker(id)
  \/ \E id \in WorkerIds : UpdateWorkerHeartbeat(id)
  \/ \E ty \in TaskTypes : GetActiveWorkers(ty)

\* the worker registry of the Work Queue and its clients
SpecRegistry == Init /\ [][NextRegistry]_vars

\* the ticker of loop l fires: ticker.C (capacity 1) holds a tick
TickerFires(l) ==
  /\ ~loop[l].ticker
  /\ loop' = [loop EXCEPT ![l].ticker = TRUE]
  /\ UNCHANGED <<now, workflows, tasks, ready, processing, retry, dead_letter, worker, crashes, updates, response, payload, lastFailed, lastTick, workers, workerInfo, active, stopCh, ctxDone, wg, stopPc, call, tick, heartbeat, main>>

\* the select of loop l takes case <-ctx.Done() or case <-s.stopCh: return,
\* and the deferred wg.Done()
LoopReturn(l) ==
  /\ loop[l].pc = "select"
  /\ ctxDone \/ stopCh
  /\ loop' = [loop EXCEPT ![l].pc = "done"]
  /\ wg' = wg - 1
  /\ UNCHANGED <<now, workflows, tasks, ready, processing, retry, dead_letter, worker, crashes, updates, response, payload, lastFailed, lastTick, workers, workerInfo, active, stopCh, ctxDone, stopPc, call, tick, heartbeat, main>>

\* the select of loop l takes case <-ticker.C; when several cases can
\* proceed, select takes any one of them
LoopStartTick(l) ==
  /\ loop[l].pc = "select"
  /\ loop[l].ticker
  /\ loop' = [loop EXCEPT ![l] = [pc |-> "tick", ticker |-> FALSE]]
  /\ UNCHANGED <<now, workflows, tasks, ready, processing, retry, dead_letter, worker, crashes, updates, response, payload, lastFailed, lastTick, workers, workerInfo, active, stopCh, ctxDone, wg, stopPc, call, tick, heartbeat, main>>

\* the body of the tick of loop l returns (schedulePendingTasks, the
\* ProcessRetries calls, checkWorkflowCompletion), here with no workflow in
\* the State Store and nothing in the Work Queue: the body writes nothing
LoopTick(l) ==
  /\ loop[l].pc = "tick"
  /\ loop' = [loop EXCEPT ![l].pc = "select"]
  /\ UNCHANGED <<now, workflows, tasks, ready, processing, retry, dead_letter, worker, crashes, updates, response, payload, lastFailed, lastTick, workers, workerInfo, active, stopCh, ctxDone, wg, stopPc, call, tick, heartbeat, main>>

\* main: cancel()
CancelContext ==
  /\ ~ctxDone
  /\ stopPc = "idle"
  /\ ctxDone' = TRUE
  /\ UNCHANGED <<now, workflows, tasks, ready, processing, retry, dead_letter, worker, crashes, updates, response, payload, lastFailed, lastTick, workers, workerInfo, active, stopCh, loop, wg, stopPc, call, tick, heartbeat, main>>

\* Scheduler.Stop: close(s.stopCh)
StopClose ==
  /\ stopPc = "idle"
  /\ stopCh' = TRUE
  /\ stopPc' = "wait"
  /\ UNCHANGED <<now, workflows, tasks, ready, processing, retry, dead_letter, worker, crashes, updates, response, payload, lastFailed, lastTick, workers, workerInfo, active, ctxDone, loop, wg, call, tick, heartbeat, main>>

\* Scheduler.Stop: s.wg.Wait() returns
StopReturn ==
  /\ stopPc = "wait"
  /\ wg = 0
  /\ stopPc' = "returned"
  /\ UNCHANGED <<now, workflows, tasks, ready, processing, retry, dead_letter, worker, crashes, updates, response, payload, lastFailed, lastTick, workers, workerInfo, active, stopCh, ctxDone, loop, wg, call, tick, heartbeat, main>>

NextStop ==
  \/ \E l \in LoopIds : TickerFires(l)
  \/ \E l \in LoopIds : LoopReturn(l)
  \/ \E l \in LoopIds : LoopStartTick(l)
  \/ \E l \in LoopIds : LoopTick(l)
  \/ CancelContext
  \/ StopClose
  \/ StopReturn

\* the three loops of the Scheduler and its shutdown
SpecStop == Init /\ [][NextStop]_vars

\* a tick's body returns; a select that can return for ever again does so
\* (select takes a case at random among those that can proceed); Wait returns
FairSpecStop ==
  /\ SpecStop
  /\ \A l \in LoopIds : WF_vars(LoopTick(l)) /\ SF_vars(LoopReturn(l))
  /\ WF_vars(StopReturn)

\* main: the goroutine that called scheduler.Start(ctx) runs its deferred
\* wg.Done(); Start returns as soon as it has started the three loops
StarterReturn ==
  /\ main.starter = "started"
  /\ main' = [main EXCEPT !.starter = "done", !.wg = @ - 1]
  /\ UNCHANGED <<now, workflows, tasks, ready, processing, retry, dead_letter, worker, crashes, updates, response, payload, lastFailed, lastTick, workers, workerInfo, active, stopCh, ctxDone, loop, wg, stopPc, call, tick, heartbeat>>

\* main: server.Start(addr) returns in its goroutine, which logs the error
\* and runs its deferred wg.Done().  Server.Start is router.Run(addr), which
\* serves until the listener fails (the address is in use, for one); main
\* holds nothing by which to shut the server down
ServerStartReturn ==
  /\ main.server = "run"
  /\ main' = [main EXCEPT !.server = "done", !.wg = @ - 1]
  /\ UNCHANGED <<now, workflows, tasks, ready, processing, retry, dead_letter, worker, crashes, updates, response, payload, lastFailed, lastTick, workers, workerInfo, active, stopCh, ctxDone, loop, wg, stopPc, call, tick, heartbeat>>

\* main: <-sigCh receives SIGINT or SIGTERM
MainSignal ==
  /\ main.pc = "signal"
  /\ main' = [main EXCEPT !.pc = "cancel"]
  /\ UNCHANGED <<now, workflows, tasks, ready, processing, retry, dead_letter, worker, crashes, updates, response, payload, lastFailed, lastTick, workers, workerInfo, active, stopCh, ctxDone, loop, wg, stopPc, call, tick, heartbeat>>

\* main: cancel()
MainCancel ==
  /\ main.pc = "cancel"
  /\ ctxDone' = TRUE
  /\ main' = [main EXCEPT !.pc = "stop"]
  /\ UNCHANGED <<now, workflows, tasks, ready, processing, retry, dead_letter, worker, crashes, updates, response, payload, lastFailed, lastTick, workers, workerInfo, active, stopCh, loop, wg, stopPc, call, tick, heartbeat>>

\* main: scheduler.Stop() is called
MainStop ==
  /\ main.pc = "stop"
  /\ StopClose

\* main: scheduler.Stop() has returned and wg.Wait() returns; main logs
\* and returns
MainReturn ==
  /\ main.pc = "stop"
  /\ stopPc = "returned"
  /\ main.wg = 0
  /\ main' = [main EXCEPT !.pc = "returned"]
  /\ UNCHANGED <<now, workflows, tasks, ready, processing, retry, dead_letter, worker, crashes, updates, response, payload, lastFailed, lastTick, workers, workerInfo, active, stopCh, ctxDone, loop, wg, stopPc, call, tick, heartbeat>>

NextMain ==
  \/ \E l \in LoopIds : TickerFires(l)
  \/ \E l \in LoopIds : LoopReturn(l)
  \/ \E l \in LoopIds : LoopStartTick(l)
  \/ \E l \in LoopIds : LoopTick(l)
  \/ StarterReturn
  \/ ServerStartReturn
  \/ MainSignal
  \/ MainCancel
  \/ MainStop
  \/ StopReturn
  \/ MainReturn

\* the orchestrator process from the start of its goroutines to its return
SpecMain == Init /\ [][NextMain]_vars

\* every goroutine that can take a step takes it, a select that can return
\* for ever again does so, a Wait whose counter is 0 returns; the signal
\* comes or not, and router.Run returns only when its listener fails
FairSpecMain ==
  /\ SpecMain
  /\ \A l \in LoopIds : WF_vars(LoopTick(l)) /\ SF_vars(LoopReturn(l))
  /\ WF_vars(StarterReturn)
  /\ WF_vars(MainCancel)
  /\ WF_vars(MainStop)
  /\ WF_vars(StopReturn)
  /\ WF_vars(MainReturn)

\* NackTask, first command of the pipeline: the Redis server executes
\* LREM processing:<type> 1 <json>.  The commands of a Pipeline() are sent
\* together but are not wrapped in MULTI/EXEC: the server may serve other
\* clients between them
NackLRem(w) ==
  /\ worker[w].pc = "run"
  /\ processing' = NackProcessing(processing, worker[w].task)
  /\ worker' = [worker EXCEPT ![w] =
                  [pc |-> "nack", task |-> @.task, status |-> @.status,
                   retryAt |-> now + RetryAfterSeconds(@.task.RetryCount)]]
  /\ UNCHANGED <<now, workflows, tasks, ready, retry, dead_letter, crashes, updates, response, payload, lastFailed, lastTick, workers, workerInfo, active, stopCh, ctxDone, loop, wg, stopPc, call, tick, heartbeat, main>>

\* NackTask, second command of the pipeline: ZADD retry:<type> with the
\* score computed when the pipeline was filled, or LPUSH dead_letter:<type>
NackSecondCommand(w) ==
  /\ worker[w].pc = "nack"
  /\ retry' = IF worker[w].task.RetryCount < worker[w].task.MaxRetries
                THEN [retry EXCEPT ![worker[w].task.Type] =
                        ZAdd(@, StructToJSON(worker[w].task), worker[w].retryAt)]
                ELSE retry
  /\ dead_letter' = NackDeadLetter(dead_letter, worker[w].task)
  /\ worker' = [worker EXCEPT ![w] = IdleWorker]
  /\ UNCHANGED <<now, workflows, tasks, ready, processing, crashes, updates, response, payload, lastFailed, lastTick, workers, workerInfo, active, stopCh, ctxDone, loop, wg, stopPc, call, tick, heartbeat, main>>

\* NackTask: the second command fails (the connection breaks, the server
\* refuses the write); pipe.Exec returns the error, NackTask returns it
NackSecondCommandFails(w) ==
  /\ worker[w].pc = "nack"
  /\ worker' = [worker EXCEPT ![w] = IdleWorker]
  /\ UNCHANGED <<now, workflows, tasks, ready, processing, retry, dead_letter, crashes, updates, response, payload, lastFailed, lastTick, workers, workerInfo, active, stopCh, ctxDone, loop, wg, stopPc, call, tick, heartbeat, main>>

NextNack ==
  \/ Advance
  \/ \E t \in QueueTaskIds : \E n \in 0..TaskMaxRetries[t] : ProducerEnqueue(t, n)
  \/ ProcessRetriesTick
  \/ \E w \in Workers : DequeueTask(w)
  \/ \E w \in Workers : NotifyRunning(w)
  \/ \E w \in Workers : NackLRem(w)
  \/ \E w \in Workers : NackSecondCommand(w)
  \/ \E w \in Workers : NackSecondCommandFails(w)

\* the Work Queue with NackTask command by command
SpecNack == Init /\ [][NextNack]_vars

\* a client of the State Store applies a workflow status: UpdateWorkflowStatus
StoreUpdateWorkflowStatus(w, status) ==
  /\ w \in DOMAIN workflows
  /\ updates < MaxUpdates
  /\ updates' = updates + 1
  /\ workflows' = UpdateWorkflowStatus(workflows, w, status)
  /\ UNCHANGED <<now, tasks, ready, processing, retry, dead_letter, worker, crashes, response, payload, lastFailed, lastTick, workers, workerInfo, active, stopCh, ctxDone, loop, wg, stopPc, call, tick, heartbeat, main>>

NextWorkflowStore ==
  \/ Advance
  \/ \E w \in WorkflowIds \cup EmptyWorkflowIds : SubmitWorkflow(w)
  \/ \E w \in WorkflowIds \cup EmptyWorkflowIds : CancelWorkflow(w)
  \/ SchedulePendingTasks
  \/ \E w \in WorkflowIds \cup EmptyWorkflowIds :
       \E status \in {WorkflowStatusPending, WorkflowStatusRunning, WorkflowStatusCompleted,
                       WorkflowStatusFailed, WorkflowStatusCancelled} :
         StoreUpdateWorkflowStatus(w, status)

\* the workflows table with workflow status updates arriving
SpecWorkflowStore == Init /\ [][NextWorkflowStore]_vars

\* the errors one tick meets: none, or one failing call
Failures ==
  {NoFailures, [NoFailures EXCEPT !.getPendingTasks = TRUE]}
    \cup {[NoFailures EXCEPT !.getWorkflow = {w}] : w \in FanOutWorkflowIds}
    \cup {[NoFailures EXCEPT !.updateWorkflow = {w}] : w \in FanOutWorkflowIds}
    \cup {[NoFailures EXCEPT !.enqueue = {t}] : t \in FanOutTaskIds}
    \cup {[NoFailures EXCEPT !.updateTask = {t}] : t \in FanOutTaskIds}

\* scheduleWorkflows, case <-ticker.C: schedulePendingTasks meets the errors
\* f; the error it returns is logged and the loop is at its select again
ScheduleWorkflowsTick(f) ==
  /\ loop["scheduleWorkflows"].pc = "tick"
  /\ SchedulePendingTasksBody(f)
  /\ loop' = [loop EXCEPT !["scheduleWorkflows"].pc = "select"]

NextTickErrors ==
  \/ Advance
  \/ \E w \in FanOutWorkflowIds : SubmitWorkflow(w)
  \/ TickerFires("scheduleWorkflows")
  \/ LoopStartTick("scheduleWorkflows")
  \/ \E f \in Failures : ScheduleWorkflowsTick(f)

\* the scheduling loop while calls of the State Store and the Work Queue fail
SpecTickErrors == Init /\ [][NextTickErrors]_vars

\* POST /api/v1/workflows with any of the requests, while the State Store
\* may fail an INSERT (a value too long for its column, a lost connection)
SubmitWorkflowRequest ==
  \E w \in WorkflowIds \cup InvalidWorkflowIds :
    \E createWorkflowFails \in BOOLEAN :
      \E failed \in SUBSET WorkflowTaskIds(w) :
        SubmitWorkflowWith(w, createWorkflowFails, failed)

NextSubmit ==
  \/ Advance
  \/ SubmitWorkflowRequest
  \/ SchedulePendingTasks

\* the API server's submit path with the scheduling loop
SpecSubmit == Init /\ [][NextSubmit]_vars

\* the i-th task of a large workflow of type generic
RetryTaskId(i) == "T" \o ToString(i)

\* the entry NackTask added at time i for the i-th task, whose first run failed
RetryEntry(i) ==
  [member |-> ToJSON(RetryTaskId(i), [NewTaskRow(RetryTaskId(i)) EXCEPT !.updated_at = 0]),
   score |-> i + RetryAfterSeconds(0)]

\* the first retry tick of a scheduler started late finds retry:generic with
\* m entries, nacked one a second by the workers
InitRetries ==
  /\ \E m \in 0..MaxRetryEntries :
       /\ now \in {0, m + 1, m + 2}
       /\ retry = [ty \in TaskTypes |->
                     IF ty = "generic" THEN {RetryEntry(i) : i \in 1..m} ELSE {}]
  /\ workflows = <<>>
  /\ tasks = <<>>
  /\ ready = [ty \in TaskTypes |-> <<>>]
  /\ processing = [ty \in TaskTypes |-> <<>>]
  /\ dead_letter = [ty \in TaskTypes |-> <<>>]
  /\ worker = [w \in Workers |-> IdleWorker]
  /\ crashes = 0
  /\ updates = 0
  /\ response = [w \in AllWorkflowIds |-> "none"]
  /\ payload = [t \in AllTaskIds |-> "unread"]
  /\ lastFailed = [t \in AllTaskIds |-> -1]
  /\ lastTick = NoTick
  /\ InitRegistry
  /\ InitLoops
  /\ call = NoCall
  /\ tick = NoTickSteps

NextRetries ==
  \/ Advance
  \/ ProcessRetriesTick

\* the retry loop of the Scheduler over a filled retry set
SpecRetries == InitRetries /\ [][NextRetries]_vars


\* calculateBackoff is called with a retry count
InitBackoff ==
  /\ call \in {[fn |-> "calculateBackoff", retryCount |-> n, done |-> FALSE, result |-> Int64(0)] :
                 n \in 0..MaxShift}
  /\ now = 0
  /\ workflows = <<>>
  /\ tasks = <<>>
  /\ ready = [ty \in TaskTypes |-> <<>>]
  /\ processing = [ty \in TaskTypes |-> <<>>]
  /\ retry = [ty \in TaskTypes |-> {}]
  /\ dead_letter = [ty \in TaskTypes |-> <<>>]
  /\ worker = [w \in Workers |-> IdleWorker]
  /\ crashes = 0
  /\ updates = 0
  /\ response = [w \in AllWorkflowIds |-> "none"]
  /\ payload = [t \in AllTaskIds |-> "unread"]
  /\ lastFailed = [t \in AllTaskIds |-> -1]
  /\ lastTick = NoTick
  /\ InitRegistry
  /\ InitLoops
  /\ tick = NoTickSteps

\* the call returns
CalculateBackoffReturn ==
  /\ call.fn = "calculateBackoff"
  /\ ~call.done
  /\ call' = [call EXCEPT !.done = TRUE, !.result = calculateBackoff(call.retryCount)]
  /\ UNCHANGED <<now, workflows, tasks, ready, processing, retry, dead_letter, worker, crashes, updates, response, payload, lastFailed, lastTick, workers, workerInfo, active, stopCh, ctxDone, loop, wg, stopPc, tick, heartbeat, main>>

\* calculateBackoff over the retry counts
SpecBackoff == InitBackoff /\ [][CalculateBackoffReturn]_vars


(* ------------------------- YAML ingestion ------------------------------ *)
\* the task names of the files, and a name no task has
YamlNames == {"a", "b", "c"}
DependsOnNames == YamlNames \cup {"x"}

\* the lists without repetition of at most n elements of S
ListsOf(S, n) ==
  {l \in UNION {[1..k -> S] : k \in 0..n} : \A i, j \in 1..Len(l) : l[i] = l[j] => i = j}

\* hasCycle: taskDeps
taskDepsOf(list) ==
  [n \in {list[i].Name : i \in 1..Len(list)} |->
     list[CHOOSE i \in 1..Len(list) : list[i].Name = n].Dependencies]

\* a DFS that leaves a finished task on recStack
RECURSIVE hasCycleUtil_NoPop(_, _, _, _)
hasCycleUtil_NoPop(taskDeps, taskName, i, st) ==
  LET deps == IF taskName \in DOMAIN taskDeps THEN taskDeps[taskName] ELSE <<>>
      in == IF i = 1 THEN [st EXCEPT !.visited = @ \cup {taskName}, !.recStack = @ \cup {taskName}]
            ELSE st
  IN IF i > Len(deps) THEN in
     ELSE LET dep == deps[i]
              sub == IF dep \notin in.visited THEN hasCycleUtil_NoPop(taskDeps, dep, 1, in)
                     ELSE in
          IN IF sub.cycle \/ dep \in sub.recStack THEN [sub EXCEPT !.cycle = TRUE]
             ELSE hasCycleUtil_NoPop(taskDeps, taskName, i + 1, sub)

\* hasCycleUtil(taskName), from the i-th dependency on: the maps visited and
\* recStack it leaves, and whether it returns true
RECURSIVE hasCycleUtil(_, _, _, _)
hasCycleUtil(taskDeps, taskName, i, st) ==
  LET deps == IF taskName \in DOMAIN taskDeps THEN taskDeps[taskName] ELSE <<>>
      in == IF i = 1 THEN [st EXCEPT !.visited = @ \cup {taskName}, !.recStack = @ \cup {taskName}]
            ELSE st
  IN IF i > Len(deps) THEN [in EXCEPT !.recStack = @ \ {taskName}]
     ELSE LET dep == deps[i]
              sub == IF dep \notin in.visited THEN hasCycleUtil(taskDeps, dep, 1, in)
                     ELSE in
          IN IF sub.cycle \/ dep \in sub.recStack THEN [sub EXCEPT !.cycle = TRUE]
             ELSE hasCycleUtil(taskDeps, taskName, i + 1, sub)

\* hasCycle: the loop over the tasks, from the k-th on
hasCycle(list) ==
  LET RECURSIVE Roots(_, _)
      Roots(k, st) ==
        IF k > Len(list) THEN FALSE
        ELSE IF list[k].Name \in st.visited THEN Roots(k + 1, st)
        ELSE LET sub == hasCycleUtil(taskDepsOf(list), list[k].Name, 1, st)
             IN sub.cycle \/ Roots(k + 1, sub)
  IN Roots(1, [visited |-> {}, recStack |-> {}, cycle |-> FALSE])

\* validateWorkflowDependencies: the error it returns
validateWorkflowDependencies(list) ==
  LET taskNames == {list[i].Name : i \in 1..Len(list)}
  IN IF \E i \in 1..Len(list) : \E j \in 1..Len(list[i].Dependencies) :
          list[i].Dependencies[j] \notin taskNames
       THEN "depends on non-existent task"
     ELSE IF hasCycle(list) THEN "workflow contains circular dependencies"
     ELSE "nil"

\* convertSpecToWorkflow hands the tasks of a file to the validation: tasks
\* of distinct names in the order of the file, each with its depends_on
InitValidate ==
  /\ \E names \in ListsOf(YamlNames, Cardinality(YamlNames)) :
       \E deps \in [1..Len(names) -> ListsOf(DependsOnNames, MaxDeps)] :
         call = [fn |-> "validateWorkflowDependencies",
                 tasks |-> [i \in 1..Len(names) |-> [Name |-> names[i], Dependencies |-> deps[i]]],
                 done |-> FALSE, result |-> "nil"]
  /\ now = 0
  /\ workflows = <<>>
  /\ tasks = <<>>
  /\ ready = [ty \in TaskTypes |-> <<>>]
  /\ processing = [ty \in TaskTypes |-> <<>>]
  /\ retry = [ty \in TaskTypes |-> {}]
  /\ dead_letter = [ty \in TaskTypes |-> <<>>]
  /\ worker = [w \in Workers |-> IdleWorker]
  /\ crashes = 0
  /\ updates = 0
  /\ response = [w \in AllWorkflowIds |-> "none"]
  /\ payload = [t \in AllTaskIds |-> "unread"]
  /\ lastFailed = [t \in AllTaskIds |-> -1]
  /\ lastTick = NoTick
  /\ InitRegistry
  /\ InitLoops
  /\ tick = NoTickSteps

\* the validation returns
ValidateReturn ==
  /\ call.fn = "validateWorkflowDependencies"
  /\ ~call.done
  /\ call' = [call EXCEPT !.done = TRUE, !.result = validateWorkflowDependencies(call.tasks)]
  /\ UNCHANGED <<now, workflows, tasks, ready, processing, retry, dead_letter, worker, crashes, updates, response, payload, lastFailed, lastTick, workers, workerInfo, active, stopCh, ctxDone, loop, wg, stopPc, tick, heartbeat, main>>

\* the validation of the files of up to three tasks
SpecValidate == InitValidate /\ [][ValidateReturn]_vars


(* ------------------ the tasks of a submitted workflow ------------------ *)
\* a key of the file or the body: whether it is there, and its value
Absent(zero) == [given |-> FALSE, value |-> zero]
Given(v) == [given |-> TRUE, value |-> v]

\* a []string: nil, or its elements
Slice(elems) == [nil |-> FALSE, elems |-> elems]
NilSlice == [nil |-> TRUE, elems |-> <<>>]

\* yaml.Unmarshal, ShouldBindJSON: an int field without its key is 0, a
\* slice field without its key is nil
DecodeInt(v) == IF v.given THEN v.value ELSE 0
DecodeSlice(v) == IF v.given THEN Slice(v.value) ELSE NilSlice

\* NewTask
NewTask(name, taskType) ==
  [Name |-> name, Type |-> taskType, MaxRetries |-> 3, Priority |-> 1,
   Dependencies |-> Slice(<<>>)]

\* convertSpecToWorkflow: the task made of a TaskSpec
convertTaskSpec(taskSpec) ==
  LET task == NewTask(taskSpec.Name, taskSpec.Type)
      retries == IF taskSpec.MaxRetries > 0 THEN [task EXCEPT !.MaxRetries = taskSpec.MaxRetries]
                 ELSE task
      prio == IF taskSpec.Priority > 0 THEN [retries EXCEPT !.Priority = taskSpec.Priority]
              ELSE retries
  IN [prio EXCEPT !.Dependencies = taskSpec.Dependencies]

\* createWorkflow: the task made of a CreateTaskRequest
createWorkflowTask(taskReq) ==
  LET task == NewTask(taskReq.Name, taskReq.Type)
      retries == IF taskReq.MaxRetries > 0 THEN [task EXCEPT !.MaxRetries = taskReq.MaxRetries]
                 ELSE task
      prio == IF taskReq.Priority > 0 THEN [retries EXCEPT !.Priority = taskReq.Priority]
              ELSE retries
  IN IF ~taskReq.Dependencies.nil THEN [prio EXCEPT !.Dependencies = taskReq.Dependencies]
     ELSE prio

\* a task of a YAML file or of a JSON body: max_retries, priority and the
\* dependencies are given or left out
InitConvert ==
  /\ \E format \in {"yaml", "json"} :
       \E retries, prio \in {Absent(0)} \cup {Given(n) : n \in 0..MaxSupplied} :
         \E deps \in {Absent(<<>>), Given(<<>>), Given(<<"a">>)} :
           call = [fn |-> "convert", format |-> format,
                   supplied |-> [name |-> "b", type |-> "generic", max_retries |-> retries,
                                 priority |-> prio, dependencies |-> deps],
                   done |-> FALSE, result |-> NewTask("", "")]
  /\ now = 0
  /\ workflows = <<>>
  /\ tasks = <<>>
  /\ ready = [ty \in TaskTypes |-> <<>>]
  /\ processing = [ty \in TaskTypes |-> <<>>]
  /\ retry = [ty \in TaskTypes |-> {}]
  /\ dead_letter = [ty \in TaskTypes |-> <<>>]
  /\ worker = [w \in Workers |-> IdleWorker]
  /\ crashes = 0
  /\ updates = 0
  /\ response = [w \in AllWorkflowIds |-> "none"]
  /\ payload = [t \in AllTaskIds |-> "unread"]
  /\ lastFailed = [t \in AllTaskIds |-> -1]
  /\ lastTick = NoTick
  /\ InitRegistry
  /\ InitLoops
  /\ tick = NoTickSteps

\* the file or the body is decoded and its task converted
ConvertReturn ==
  /\ call.fn = "convert"
  /\ ~call.done
  /\ LET decoded == [Name |-> call.supplied.name, Type |-> call.supplied.type,
                     MaxRetries |-> DecodeInt(call.supplied.max_retries),
                     Priority |-> DecodeInt(call.supplied.priority),
                     Dependencies |-> DecodeSlice(call.supplied.dependencies)]
     IN call' = [call EXCEPT !.done = TRUE,
                             !.result = IF call.format = "yaml" THEN convertTaskSpec(decoded)
                                        ELSE createWorkflowTask(decoded)]
  /\ UNCHANGED <<now, workflows, tasks, ready, processing, retry, dead_letter, worker, crashes, updates, response, payload, lastFailed, lastTick, workers, workerInfo, active, stopCh, ctxDone, loop, wg, stopPc, tick, heartbeat, main>>

\* the conversion of submitted tasks
SpecConvert == InitConvert /\ [][ConvertReturn]_vars


(* ------------------- a scheduling tick, call by call ------------------- *)
\* schedulePendingTasks goes on with the next workflow of its loop, or
\* returns
NextWorkflow(tk) ==
  IF Len(tk.order) <= 1 THEN NoTickSteps
  ELSE [tk EXCEPT !.pc = "getWorkflow", !.order = Tail(@), !.sched = <<>>]

\* schedulePendingTasks: GetPendingTasks and the grouping by workflow
TickGetPendingTasks ==
  /\ tick.pc = "idle"
  /\ \A ty \in TaskTypes :
       Len(ready[ty]) + Cardinality({t \in DOMAIN tasks : TaskType[t] = ty}) <= MaxReady
  /\ \E order \in WorkflowOrders(tasks) :
       /\ order # <<>>
       /\ tick' = [pc |-> "getWorkflow", snap |-> tasks, order |-> order, sched |-> <<>>]
  /\ UNCHANGED <<now, workflows, tasks, ready, processing, retry, dead_letter, worker, crashes, updates, response, payload, lastFailed, lastTick, workers, workerInfo, active, stopCh, ctxDone, loop, wg, stopPc, call, heartbeat, main>>

\* scheduleWorkflowTasks: GetWorkflow, the test of the status, completedTasks
\* and tasksToSchedule
TickGetWorkflow ==
  /\ tick.pc = "getWorkflow"
  /\ LET w == Head(tick.order)
         sched == TasksToSchedule(workflows, tasks, tick.snap, w)
     IN tick' = IF sched = <<>> THEN NextWorkflow(tick)
                ELSE [tick EXCEPT !.sched = sched,
                                  !.pc = IF workflows[w].status = WorkflowStatusPending
                                           THEN "updateWorkflow" ELSE "enqueue"]
  /\ UNCHANGED <<now, workflows, tasks, ready, processing, retry, dead_letter, worker, crashes, updates, response, payload, lastFailed, lastTick, workers, workerInfo, active, stopCh, ctxDone, loop, wg, stopPc, call, heartbeat, main>>

\* scheduleWorkflowTasks: UpdateWorkflowStatus(workflowID, running), called
\* when the workflow read by GetWorkflow was pending
TickUpdateWorkflowStatus ==
  /\ tick.pc = "updateWorkflow"
  /\ workflows' = UpdateWorkflowStatus(workflows, Head(tick.order), WorkflowStatusRunning)
  /\ tick' = [tick EXCEPT !.pc = "enqueue"]
  /\ UNCHANGED <<now, tasks, ready, processing, retry, dead_letter, worker, crashes, updates, response, payload, lastFailed, lastTick, workers, workerInfo, active, stopCh, ctxDone, loop, wg, stopPc, call, heartbeat, main>>

\* scheduleWorkflowTasks: EnqueueTask of the next task of tasksToSchedule
TickEnqueueTask ==
  /\ tick.pc = "enqueue"
  /\ ready' = EnqueueTask(ready, Head(tick.sched), ToJSON(Head(tick.sched), tick.snap[Head(tick.sched)]))
  /\ tick' = [tick EXCEPT !.pc = "updateTask"]
  /\ UNCHANGED <<now, workflows, tasks, processing, retry, dead_letter, worker, crashes, updates, response, payload, lastFailed, lastTick, workers, workerInfo, active, stopCh, ctxDone, loop, wg, stopPc, call, heartbeat, main>>

\* scheduleWorkflowTasks: UpdateTaskStatus(task.ID, pending, nil, "") after
\* the EnqueueTask
TickUpdateTaskStatus ==
  /\ tick.pc = "updateTask"
  /\ tasks' = UpdateTaskStatus(tasks, Head(tick.sched), TaskStatusPending, NULL, "")
  /\ tick' = IF Len(tick.sched) > 1 THEN [tick EXCEPT !.pc = "enqueue", !.sched = Tail(@)]
             ELSE NextWorkflow(tick)
  /\ UNCHANGED <<now, workflows, ready, processing, retry, dead_letter, worker, crashes, updates, response, payload, lastFailed, lastTick, workers, workerInfo, active, stopCh, ctxDone, loop, wg, stopPc, call, heartbeat, main>>

NextTickSteps ==
  \/ Advance
  \/ \E w \in WorkflowIds : SubmitWorkflow(w)
  \/ \E w \in WorkflowIds : CancelWorkflow(w)
  \/ TickGetPendingTasks
  \/ TickGetWorkflow
  \/ TickUpdateWorkflowStatus
  \/ TickEnqueueTask
  \/ TickUpdateTaskStatus
  \/ \E t \in TaskIds :
       \E status \in {TaskStatusRunning, TaskStatusCompleted,
                       TaskStatusRetrying, TaskStatusFailed} :
         StoreUpdateTaskStatus(t, status)

\* the scheduling tick call by call, next to the API server's cancellation
\* and the clients of the State Store
SpecTickSteps == Init /\ [][NextTickSteps]_vars


(* ------------------- the heartbeat, command by command ----------------- *)
\* UpdateWorkerHeartbeat: GET worker:<id>. Without the key the call returns
\* the error; with it, LastHeartbeat = time.Now() is put in the WorkerInfo
HeartbeatGet(id) ==
  /\ heartbeat[id].pc = "idle"
  /\ heartbeat' = [heartbeat EXCEPT ![id] =
                     IF KeyExists(workerInfo, id) THEN [pc |-> "set", at |-> now, failed |-> FALSE]
                     ELSE [pc |-> "idle", at |-> @.at, failed |-> TRUE]]
  /\ UNCHANGED <<now, workflows, tasks, ready, processing, retry, dead_letter, worker, crashes, updates, response, payload, lastFailed, lastTick, workers, workerInfo, active, stopCh, ctxDone, loop, wg, stopPc, call, tick, main>>

\* UpdateWorkerHeartbeat: SET worker:<id> <WorkerInfo> EX 5 minutes
HeartbeatSet(id) ==
  /\ heartbeat[id].pc = "set"
  /\ workerInfo' = [i \in DOMAIN workerInfo \cup {id} |->
                      IF i = id THEN [LastHeartbeat |-> heartbeat[id].at, expires |-> now + WorkerTTL]
                      ELSE workerInfo[i]]
  /\ heartbeat' = [heartbeat EXCEPT ![id].pc = "idle"]
  /\ UNCHANGED <<now, workflows, tasks, ready, processing, retry, dead_letter, worker, crashes, updates, response, payload, lastFailed, lastTick, workers, active, stopCh, ctxDone, loop, wg, stopPc, call, tick, main>>

NextHeartbeat ==
  \/ AdvanceMinute
  \/ RegisterWorker("r1")
  \/ HeartbeatGet("r1")
  \/ HeartbeatSet("r1")
  \/ \E ty \in TaskTypes : GetActiveWorkers(ty)

\* the worker registry with the heartbeat of worker r1, which serves both
\* types, command by command
SpecHeartbeat == Init /\ [][NextHeartbeat]_vars


(* ----------------------------- properties ----------------------------- *)
\* the task of workflow w the name dep refers to
TaskNamed(w, dep) == {u \in WorkflowTaskIds(w) : TaskName[u] = dep}

\* every dependency of t names a task of its workflow that is completed in tbl
\* tk: task id -> status
DependenciesCompleted(tk, t) ==
  \A dep \in TaskDependencies[t] :
    \E u \in TaskNamed(TaskWorkflow[t], dep) :
      u \in DOMAIN tk /\ tk[u] = TaskStatusCompleted

\* the ids of the entries of a list / of a sorted set
RECURSIVE CountInList(_, _)
CountInList(list, t) ==
  IF list = <<>> THEN 0
  ELSE (IF Head(list).id = t THEN 1 ELSE 0) + CountInList(Tail(list), t)

CountInSet(zset, t) == Cardinality({z \in zset : z.member.id = t})

\* occurrences of task t in the four channels of its type
Occurrences(t) ==
  LET ty == TaskType[t]
  IN CountInList(ready[ty], t) + CountInList(processing[ty], t)
       + CountInSet(retry[ty], t) + CountInList(dead_letter[ty], t)

\* C1: a scheduling tick enqueues a task only if every task its dependencies
\* name is completed in the State Store the tick read
C1_EnqueueOnlyAfterDependencies ==
  \A t \in lastTick.pushed : DependenciesCompleted(lastTick.tk, t)

\* C1 witness: a tick has enqueued A and held back B, whose dependency a is
\* not completed
C1_Witness ==
  /\ lastTick.done
  /\ lastTick.pushed = {"A"}
  /\ lastTick.tk["B"] = TaskStatusPending
  /\ CountInList(ready["generic"], "A") = 1
  /\ ready["etl"] = <<>>

\* C3: a tick over a pending or running workflow enqueues exactly its pending
\* or retrying tasks all of whose dependencies name completed tasks
C3_EnqueuesExactlyTheReadySet ==
  \A w \in DOMAIN lastTick.wf :
    lastTick.wf[w] \in {WorkflowStatusPending, WorkflowStatusRunning}
      => {t \in lastTick.pushed : TaskWorkflow[t] = w}
           = {t \in WorkflowTaskIds(w) :
                /\ lastTick.tk[t] \in {TaskStatusPending, TaskStatusRetrying}
                /\ DependenciesCompleted(lastTick.tk, t)}

\* C4: after a worker's status report the task's stored status is the
\* reported status
C4_ReportIsStored ==
  [][\A w \in Workers :
       /\ NotifyRunning(w) => tasks'[worker[w].task.ID].status = TaskStatusRunning
       /\ NotifyOutcome(w) => tasks'[worker[w].task.ID].status = worker[w].status]_vars

\* C6: without a worker crash, each task id occurs at most once in
\* ready, processing, retry and dead_letter of its type
C6_AtMostOneOccurrence ==
  crashes = 0 => \A t \in TaskIds : Occurrences(t) <= 1

\* C7: every persisted task has 0 <= retry_count <= max_retries
C7_RetryCountWithinBudget ==
  \A t \in DOMAIN tasks :
    0 <= tasks[t].retry_count /\ tasks[t].retry_count <= TaskMaxRetries[t]

\* the stored status of a task / a workflow, "none" before submission
StatusOfTask(t) == IF t \in DOMAIN tasks THEN tasks[t].status ELSE "none"
StatusOfWorkflow(w) == IF w \in DOMAIN workflows THEN workflows[w].status ELSE "none"

\* the workflow of task t has been cancelled
Cancelled(t) == StatusOfWorkflow(TaskWorkflow[t]) = WorkflowStatusCancelled

\* C2: with the loops ticking and the workers alive (no worker dies), every
\* task of a submitted workflow that is not cancelled eventually has a
\* terminal status (completed or failed) in the State Store
C2_TasksReachTerminalStatus ==
  \A t \in TaskIds :
    (t \in DOMAIN tasks)
      ~> \/ StatusOfTask(t) \in {TaskStatusCompleted, TaskStatusFailed}
         \/ Cancelled(t)
         \/ crashes > 0

AllCompleted(w) == \A t \in WorkflowTaskIds(w) : StatusOfTask(t) = TaskStatusCompleted

\* no task of w can be scheduled, and one has failed
FailedAndStuck(w) ==
  /\ \E t \in WorkflowTaskIds(w) : StatusOfTask(t) = TaskStatusFailed
  /\ \A t \in WorkflowTaskIds(w) :
       StatusOfTask(t) \in {TaskStatusPending, TaskStatusRetrying}
         => ~DependenciesCompleted([u \in DOMAIN tasks |-> tasks[u].status], t)
  /\ \A t \in WorkflowTaskIds(w) : StatusOfTask(t) # TaskStatusRunning

Running(w) == w \in DOMAIN workflows /\ workflows[w].status = WorkflowStatusRunning

\* C5: a running workflow whose tasks are all completed eventually becomes
\* completed, and a running workflow with a failed task and nothing left to
\* schedule eventually becomes failed (unless it is cancelled, or a later
\* status update changes its tasks, before the monitor's tick)
C5_MonitorClosesWorkflows ==
  \A w \in WorkflowIds :
    /\ (Running(w) /\ AllCompleted(w))
         ~> \/ StatusOfWorkflow(w) = WorkflowStatusCompleted
            \/ StatusOfWorkflow(w) = WorkflowStatusCancelled
            \/ ~AllCompleted(w)
    /\ (Running(w) /\ FailedAndStuck(w))
         ~> \/ StatusOfWorkflow(w) = WorkflowStatusFailed
            \/ StatusOfWorkflow(w) = WorkflowStatusCancelled
            \/ ~FailedAndStuck(w)

\* entries of processing:<type> for task t that no worker goroutine holds
Orphaned(t) ==
  LET ty == TaskType[t]
      held == Cardinality({w \in Workers :
                 /\ WorkerType[w] = ty
                 /\ worker[w].pc \in {"notify_running", "run"}
                 /\ worker[w].task.ID = t})
  IN CountInList(processing[ty], t) > held

\* C8: a task left in processing by a worker that died re-appears in
\* ready[type] with its retry_count not incremented
C8_CrashedTaskIsRedelivered ==
  \A t \in TaskIds :
    Orphaned(t) ~>
      (\E i \in 1..Len(ready[TaskType[t]]) :
         /\ ready[TaskType[t]][i].id = t
         /\ ready[TaskType[t]][i].retry_count = tasks[t].retry_count)

\* C9: while the backoff of a failed attempt has not elapsed (its entry of
\* retry[type] is keyed by the time of the failure + backoff(retry_count)),
\* no copy of the task is in ready[type] and no attempt of it starts
C9_BackoffLowerBound ==
  \A ty \in TaskTypes : \A z \in retry[ty] :
    now < z.score =>
      /\ CountInList(ready[ty], z.member.id) = 0
      /\ \A w \in Workers :
           ~(worker[w].pc = "notify_running" /\ worker[w].task.ID = z.member.id)

\* C10: the task struct a worker dequeues after a failed attempt of the task
\* carries a retry_count greater than the one the failed attempt carried
C10_RetryCountGrowsBetweenAttempts ==
  [][\A w \in Workers :
       DequeueTask(w) =>
         LET json == ready[WorkerType[w]][Len(ready[WorkerType[w]])]
         IN lastFailed[json.id] >= 0 => json.retry_count > lastFailed[json.id]]_vars

\* C11: with the loops ticking and the workers alive, a task whose body
\* fails on every attempt (its payload lacks a key the body reads)
\* eventually has status failed with retry_count = max_retries in the State
\* Store: its attempts end when the budget is used up
C11_RetryBudgetIsBounded ==
  \A t \in TaskIds :
    (payload[t] = "invalid")
      ~> \/ /\ StatusOfTask(t) = TaskStatusFailed
            /\ tasks[t].retry_count = TaskMaxRetries[t]
         \/ Cancelled(t)
         \/ crashes > 0

\* C12: when an attempt fails with the budget used up (the worker reports
\* failed), one entry for the task appears in dead_letter of its type
C12_ExhaustedTaskIsDeadLettered ==
  [][\A w \in Workers :
       (RunTask(w) /\ worker'[w].status = TaskStatusFailed)
         => CountInList(dead_letter'[WorkerType[w]], worker[w].task.ID)
              = CountInList(dead_letter[WorkerType[w]], worker[w].task.ID) + 1]_vars

C14_OutcomeAfterCancelIsAccepted ==
  [][\A w \in Workers :
       (NotifyOutcome(w) /\ Cancelled(worker[w].task.ID))
         => /\ tasks'[worker[w].task.ID].status = worker[w].status
            /\ workflows'[TaskWorkflow[worker[w].task.ID]].status = WorkflowStatusCancelled]_vars

\* the tasks of w that t depends on directly
DirectDependencies(w, t) == UNION {TaskNamed(w, dep) : dep \in TaskDependencies[t]}

\* the tasks reached from the set S along at most n dependency edges
RECURSIVE DependencyClosure(_, _, _)
DependencyClosure(w, S, n) ==
  IF n = 0 THEN S
  ELSE DependencyClosure(w, S \cup UNION {DirectDependencies(w, t) : t \in S}, n - 1)

\* every dependency of a task of w names a task of w, and no task of w
\* depends on itself through any chain of dependencies
ValidDependencyGraph(w) ==
  /\ \A t \in WorkflowTaskIds(w) : \A dep \in TaskDependencies[t] : TaskNamed(w, dep) # {}
  /\ \A t \in WorkflowTaskIds(w) :
       t \notin DependencyClosure(w, DirectDependencies(w, t), Cardinality(WorkflowTaskIds(w)))

\* C15: a request whose dependency graph names an unknown task or has a
\* cycle is not answered with success and nothing of it is in the State Store
C15_InvalidGraphIsRejected ==
  \A w \in AllWorkflowIds :
    ~ValidDependencyGraph(w)
      => /\ response[w] # "201"
         /\ w \notin DOMAIN workflows
         /\ WorkflowTaskIds(w) \cap DOMAIN tasks = {}

\* C16: a submission answered with success has persisted the workflow and
\* every task of it; one answered with an error has left nothing of it
C16_SubmissionIsAllOrNothing ==
  \A w \in AllWorkflowIds :
    /\ response[w] = "201"
         => (w \in DOMAIN workflows /\ WorkflowTaskIds(w) \subseteq DOMAIN tasks)
    /\ response[w] = "500"
         => (w \notin DOMAIN workflows /\ WorkflowTaskIds(w) \cap DOMAIN tasks = {})

\* C17: a task whose stored status is completed, failed or cancelled keeps
\* that status in every step
C17_TerminalStatusIsFinal ==
  [][\A t \in DOMAIN tasks :
       tasks[t].status \in {TaskStatusCompleted, TaskStatusFailed, TaskStatusCancelled}
         => tasks'[t].status = tasks[t].status]_vars

\* C18: a status update that carries the terminal status (and the result or
\* error) the task's record already holds leaves status, result, error,
\* retry_count and completed_at of the record as they are
C18_SameTerminalStatusIsNoOp ==
  [][\A t \in DOMAIN tasks :
       \A status \in {TaskStatusCompleted, TaskStatusFailed} :
         (StoreUpdateTaskStatus(t, status) /\ tasks[t].status = status)
           => /\ tasks'[t].status = tasks[t].status
              /\ tasks'[t].result = tasks[t].result
              /\ tasks'[t].error = tasks[t].error
              /\ tasks'[t].retry_count = tasks[t].retry_count
              /\ tasks'[t].completed_at = tasks[t].completed_at]_vars

\* C19: a worker that holds a dequeued task finds it in processing of its
\* type, and no step but an Ack or a Nack (a worker's death included) takes
\* an entry of the task out of ready and processing together
C19_DequeuedTaskStaysLeased ==
  /\ [](\A w \in Workers :
          worker[w].pc \in {"notify_running", "run"}
            => CountInList(processing[WorkerType[w]], worker[w].task.ID) >= 1)
  /\ [][\/ \E w \in Workers : RunTask(w) \/ ConsumerNackTask(w)
        \/ \A t \in TaskIds :
             CountInList(ready'[TaskType[t]], t) + CountInList(processing'[TaskType[t]], t)
               >= CountInList(ready[TaskType[t]], t) + CountInList(processing[TaskType[t]], t)]_vars

\* C19 witness: the worker died after DequeueTask; the entry of task a is in
\* processing:generic and no worker holds it
C19_Witness ==
  /\ crashes = 1
  /\ worker["wk1"].pc = "dequeue"
  /\ CountInList(processing["generic"], "A") = 1
  /\ ready["generic"] = <<>>

\* a step in which worker w hands the task it holds to NackTask
NackStep(w) == ConsumerNackTask(w) \/ (RunTask(w) /\ worker'[w].status = TaskStatusRetrying)

\* the entries of a sorted set whose member is the given JSON
MembersOf(zset, json) == {z \in zset : z.member = json}

\* occurrences of a JSON value in a list
RECURSIVE CountJSON(_, _)
CountJSON(list, json) ==
  IF list = <<>> THEN 0
  ELSE (IF Head(list) = json THEN 1 ELSE 0) + CountJSON(Tail(list), json)

\* C20: NackTask takes the task's entry out of processing of its type and
\* puts it in retry with key now + backoff(retry_count) when retry_count <
\* max_retries (dead_letter untouched), else on dead_letter (retry
\* untouched); ready stays as it is
C20_NackMovesToOneChannel ==
  [][\A w \in Workers :
       NackStep(w) =>
         LET task == worker[w].task
             ty == WorkerType[w]
             json == StructToJSON(task)
         IN /\ CountJSON(processing'[ty], json) = CountJSON(processing[ty], json) - 1
            /\ Len(processing'[ty]) = Len(processing[ty]) - 1
            /\ ready' = ready
            /\ IF task.RetryCount < TaskMaxRetries[task.ID]
                 THEN /\ MembersOf(retry'[ty], json)
                           = {[member |-> json,
                               score |-> now + RetryAfterSeconds(task.RetryCount)]}
                      /\ {z \in retry'[ty] : z.member # json}
                           = {z \in retry[ty] : z.member # json}
                      /\ dead_letter' = dead_letter
                 ELSE /\ CountJSON(dead_letter'[ty], json)
                           = CountJSON(dead_letter[ty], json) + 1
                      /\ Len(dead_letter'[ty]) = Len(dead_letter[ty]) + 1
                      /\ retry' = retry]_vars

\* C20 witness: one task was nacked with its budget left and is in retry,
\* one was nacked with the budget used up and is on dead_letter, and
\* processing and ready are empty
C20_Witness ==
  /\ \E z \in retry["generic"] : z.member.id = "A" /\ z.member.retry_count = 0
  /\ \E i \in 1..Len(dead_letter["generic"]) :
       /\ dead_letter["generic"][i].id = "A"
       /\ dead_letter["generic"][i].retry_count = 1
  /\ processing["generic"] = <<>>
  /\ ready["generic"] = <<>>

\* the members of the entries of sorted set zset that are due at time t
DueMembers(zset, t) == {z.member : z \in {y \in zset : y.score <= t}}

\* C21: a retry tick (ProcessRetries for every type, each returning nil)
\* leaves no entry with a key <= the time of the call in retry[type], pushes
\* each such entry exactly once onto the head of ready[type], and leaves
\* every entry with a later key in retry[type]
C21_RetryTickMovesEveryDueEntry ==
  [][ProcessRetriesTick =>
       \A ty \in TaskTypes :
         LET due == DueMembers(retry[ty], now)
             n == Len(ready'[ty]) - Len(ready[ty])
         IN /\ DueMembers(retry'[ty], now) = {}
            /\ {z \in retry'[ty] : z.score > now} = {z \in retry[ty] : z.score > now}
            /\ n = Cardinality(due)
            /\ {ready'[ty][i] : i \in 1..n} = due
            /\ SubSeq(ready'[ty], n + 1, Len(ready'[ty])) = ready[ty]]_vars

\* a step in which worker w hands the task it holds to AckTask
AckStep(w) ==
  \/ ConsumerAckTask(w)
  \/ RunTask(w) /\ worker'[w].status \in {TaskStatusCompleted, TaskStatusFailed}

\* the entries of a list other than the given JSON, in their order
WithoutJSON(list, json) == LET Other(x) == x # json IN SelectSeq(list, Other)

\* C22: AckTask removes exactly one occurrence of the task's serialized form
\* from processing of its type (none when there is none), and leaves ready,
\* retry and dead_letter of that type and every channel of the other types
\* as they were
C22_AckRemovesOneOccurrence ==
  [][\A w \in Workers :
       AckStep(w) =>
         LET task == worker[w].task
             ty == task.Type
             json == StructToJSON(task)
             n == CountJSON(processing[ty], json)
         IN /\ CountJSON(processing'[ty], json) = (IF n > 0 THEN n - 1 ELSE 0)
            /\ Len(processing'[ty]) = Len(processing[ty]) - (IF n > 0 THEN 1 ELSE 0)
            /\ WithoutJSON(processing'[ty], json) = WithoutJSON(processing[ty], json)
            /\ \A o \in TaskTypes \ {ty} : processing'[o] = processing[o]
            /\ ready' = ready
            /\ retry' = retry
            /\ dead_letter' = dead_letter]_vars

\* C22 witness: the worker's run succeeded and AckTask took one of the two
\* equal entries out of processing:generic (the other one was left by a
\* worker that died); the worker has not reported yet
C22_Witness ==
  /\ worker["wk1"].pc = "notify"
  /\ worker["wk1"].status = TaskStatusCompleted
  /\ CountJSON(processing["generic"], StructToJSON(worker["wk1"].task)) = 1
  /\ Len(processing["generic"]) = 1

\* C23: a workflow with zero tasks is accepted at submission (201, its row
\* is stored) and becomes completed by the completion monitor
C23_EmptyWorkflowCompletes ==
  /\ [][\A w \in EmptyWorkflowIds :
          SubmitWorkflow(w) => response'[w] = "201" /\ w \in DOMAIN workflows']_vars
  /\ \A w \in EmptyWorkflowIds :
       (w \in DOMAIN workflows)
         ~> (w \in DOMAIN workflows /\ workflows[w].status = WorkflowStatusCompleted)

\* task t comes before task u in (priority DESC, created_at ASC)
RanksBefore(t, u) ==
  \/ TaskPriority[t] > TaskPriority[u]
  \/ TaskPriority[t] = TaskPriority[u] /\ TaskCreatedSeq[t] < TaskCreatedSeq[u]

\* C24: the entries a scheduling tick pushes for the tasks of one workflow
\* and one type leave the ready list in (priority DESC, created_at ASC)
\* order: the tick puts them on ready[type] so that the one of higher rank is
\* nearer to the tail, every step but a dequeue leaves the entries of ready
\* in place (new ones are added at the head only), and a dequeue hands the
\* worker the entry at the tail
C24_FanOutIsDequeuedInPriorityOrder ==
  [][\A ty \in TaskTypes :
       LET old == ready[ty]
           new == ready'[ty]
           n == Len(new) - Len(old)
       IN IF n < 0
            THEN /\ new = SubSeq(old, 1, Len(old) - 1)
                 /\ \E w \in Workers :
                      /\ WorkerType[w] = ty
                      /\ worker[w].pc = "dequeue"
                      /\ worker'[w].task = TaskFromJSON(old[Len(old)])
            ELSE /\ SubSeq(new, n + 1, Len(new)) = old
                 /\ SchedulePendingTasks =>
                      \A i, j \in 1..n :
                        (i < j /\ TaskWorkflow[new[i].id] = TaskWorkflow[new[j].id])
                          => RanksBefore(new[j].id, new[i].id)]_vars

\* C24 witness: one tick pushed f (priority 1, created first) and g
\* (priority 2); the worker has dequeued g, f is still on ready:generic
C24_Witness ==
  /\ lastTick.pushed = {"F", "G"}
  /\ worker["wk1"].pc = "notify_running"
  /\ worker["wk1"].task.ID = "G"
  /\ Len(ready["generic"]) = 1
  /\ ready["generic"][1].id = "F"

C26_StopEndsTheLoops ==
  /\ [][\A l \in LoopIds :
          (stopCh \/ ctxDone) => ~(loop[l].pc = "select" /\ loop'[l].pc = "tick")]_vars
  /\ (stopCh \/ ctxDone) ~> (\A l \in LoopIds : loop[l].pc = "done")
  /\ (stopPc = "wait") ~> (stopPc = "returned")

\* C27: NackTask is atomic: the step that takes the task's entry out of
\* processing also puts it in retry or on dead_letter, so that no client
\* of the queue sees the entry gone from processing and not yet in either,
\* and no failure can leave it in neither
C27_NackIsAtomic ==
  [][\A w \in Workers :
       LET ty == WorkerType[w]
           json == StructToJSON(worker[w].task)
       IN (/\ NackStep(w) \/ NackLRem(w)
           /\ CountJSON(processing'[ty], json) < CountJSON(processing[ty], json))
            => \/ MembersOf(retry'[ty], json) # {}
               \/ CountJSON(dead_letter'[ty], json) > CountJSON(dead_letter[ty], json)]_vars

\* C28: a task whose status is completed has a result and its completed_at
\* set, a task whose status is failed has a non-empty error and its
\* completed_at set, and a task whose status is running has its started_at
\* set
C28_StatusImpliesItsFields ==
  \A t \in DOMAIN tasks :
    /\ tasks[t].status = TaskStatusCompleted
         => tasks[t].result # NULL /\ tasks[t].completed_at # NoTime
    /\ tasks[t].status = TaskStatusFailed
         => tasks[t].error \notin {NULL, ""} /\ tasks[t].completed_at # NoTime
    /\ tasks[t].status = TaskStatusRunning
         => tasks[t].started_at # NoTime

\* C28 witness: task a was reported running and then completed: it carries
\* its result and both times
C28_Witness ==
  /\ "A" \in DOMAIN tasks
  /\ tasks["A"].status = TaskStatusCompleted
  /\ tasks["A"].result = "result"
  /\ tasks["A"].started_at # NoTime
  /\ tasks["A"].completed_at # NoTime

\* C29: UpdateWorkflowStatus is idempotent (the status a workflow already
\* has, applied again, changes nothing but updated_at); started_at is set by
\* the first update to running and kept by a later one; completed_at is set
\* by every update to completed, failed or cancelled
C29_WorkflowStatusUpdateIsIdempotent ==
  [][\A w \in DOMAIN workflows :
       \A status \in {WorkflowStatusPending, WorkflowStatusRunning, WorkflowStatusCompleted,
                       WorkflowStatusFailed, WorkflowStatusCancelled} :
         StoreUpdateWorkflowStatus(w, status) =>
           /\ workflows[w].status = status
                => /\ workflows'[w].status = workflows[w].status
                   /\ workflows'[w].started_at = workflows[w].started_at
                   /\ workflows'[w].completed_at = workflows[w].completed_at
           /\ (status = WorkflowStatusRunning /\ workflows[w].started_at # NoTime)
                => workflows'[w].started_at = workflows[w].started_at
           /\ (status = WorkflowStatusRunning /\ workflows[w].started_at = NoTime)
                => workflows'[w].started_at = now
           /\ status \in {WorkflowStatusCompleted, WorkflowStatusFailed,
                           WorkflowStatusCancelled}
                => workflows'[w].completed_at # NoTime]_vars

\* the tasks a tick enqueues when no call fails
TickWouldEnqueue ==
  UNION {{TasksToSchedule(workflows, tasks, tasks, w)[i] :
            i \in 1..Len(TasksToSchedule(workflows, tasks, tasks, w))} :
         w \in AllWorkflowIds}

\* the tasks the errors f keep from being enqueued: those of a workflow
\* whose fetch or status update fails, and those whose own enqueue fails
HitBy(f) ==
  {t \in TickWouldEnqueue :
     \/ TaskWorkflow[t] \in f.getWorkflow
     \/ TaskWorkflow[t] \in f.updateWorkflow
          /\ workflows[TaskWorkflow[t]].status = WorkflowStatusPending
     \/ t \in f.enqueue}

\* C30: a per-item error (workflow fetch, enqueue, status update) does not
\* stop the scheduling loop: the tick still enqueues every task of the other
\* workflows and every other task, and the loop is at its select again, from
\* where later ticks start; it never returns unless stopped
C30_ItemErrorsDoNotStopTheLoop ==
  /\ [][loop["scheduleWorkflows"].pc = "tick" /\ loop'["scheduleWorkflows"].pc # "tick"
          => /\ loop'["scheduleWorkflows"].pc = "select"
             /\ LET f == lastTick'.failures
                IN IF f.getPendingTasks
                     THEN ready' = ready
                     ELSE NewIds(ready, ready') = TickWouldEnqueue \ HitBy(f)]_vars
  /\ []((~stopCh /\ ~ctxDone) => loop["scheduleWorkflows"].pc # "done")

\* C30 witness: in the last tick the enqueue of g, the first task of W4 in
\* the tick's order, failed; the tick has enqueued f, the other task of W4,
\* and the loop is at its select with the next tick waiting
C30_Witness ==
  /\ lastTick.done
  /\ lastTick.failures.enqueue = {"G"}
  /\ lastTick.pushed = {"F"}
  /\ loop["scheduleWorkflows"] = [pc |-> "select", ticker |-> TRUE]

\* the default RetryPolicy of a workflow: 1s, factor 2, at most 5 minutes
\* (every workflow of the catalog is created with it)
RECURSIVE PolicyDelay(_, _)
PolicyDelay(policy, n) ==
  LET cap == DurationSeconds(policy.MaxDelay)
      d == IF n = 0 THEN DurationSeconds(policy.InitialDelay)
           ELSE policy.BackoffFactor * PolicyDelay(policy, n - 1)
  IN IF d > cap THEN cap ELSE d

\* C31: the entry NackTask puts in retry[type] is keyed by now + min(max_delay,
\* initial_delay * backoff_factor^n), n the task's retry_count and the three
\* values those of the RetryPolicy of the task's workflow
C31_BackoffFollowsRetryPolicy ==
  [][\A w \in Workers :
       NackStep(w) /\ worker[w].task.RetryCount < TaskMaxRetries[worker[w].task.ID] =>
         \A z \in MembersOf(retry'[WorkerType[w]], StructToJSON(worker[w].task)) :
           z.score = now + PolicyDelay(NewWorkflowRetryPolicy, worker[w].task.RetryCount)]_vars

\* min(5 minutes, 2s * 2^n) in seconds, without wrap-around
CappedDoubling(n) == IF n >= 8 THEN 300 ELSE 2 * Pow2(n)

\* C32: calculateBackoff(n) is min(5 minutes, 2s * 2^n) for every n >= 0
C32_BackoffIsCappedDoubling ==
  (call.fn = "calculateBackoff" /\ call.done) =>
     call.result = Mul64(Int64(CappedDoubling(call.retryCount)), Second)

\* task u of the list names v in depends_on
DependsOn(list, u, v) ==
  \E i \in 1..Len(list) : list[i].Name = u /\ \E j \in 1..Len(list[i].Dependencies) :
     list[i].Dependencies[j] = v

\* some task names in depends_on a name that no task of the list has
HasDanglingName(list) ==
  \E i \in 1..Len(list) : \E v \in DependsOnNames :
     DependsOn(list, list[i].Name, v) /\ \A k \in 1..Len(list) : list[k].Name # v

\* a walk along depends_on leads from a task back to it
HasCircularDependency(list) ==
  \E k \in 1..Len(list) : \E walk \in [1..(k + 1) -> YamlNames] :
     /\ walk[1] = walk[k + 1]
     /\ \A i \in 1..k : DependsOn(list, walk[i], walk[i + 1])

\* C33: validateWorkflowDependencies returns an error iff a task depends on a
\* name that is not a task of the workflow or the dependencies contain a
\* cycle (a self-dependency included)
C33_ValidationIsExact ==
  (call.fn = "validateWorkflowDependencies" /\ call.done) =>
     (call.result # "nil" <=> (HasDanglingName(call.tasks) \/ HasCircularDependency(call.tasks)))

\* C33 witness: a file of three tasks whose only cycle goes through all three
\* is refused
C33_Witness ==
  /\ call.fn = "validateWorkflowDependencies" /\ call.done
  /\ Len(call.tasks) = 3
  /\ \A u, v \in YamlNames : DependsOn(call.tasks, u, v) => ~DependsOn(call.tasks, v, u)
  /\ ~HasDanglingName(call.tasks)
  /\ call.result = "workflow contains circular dependencies"

\* C34: the task of the workflow model has the name, type, dependencies,
\* priority and max_retries the submission supplied, for every supplied
\* value, priority 0 and max_retries 0 included
C34_SubmissionPreservesParameters ==
  (call.fn = "convert" /\ call.done) =>
     /\ call.result.Name = call.supplied.name
     /\ call.result.Type = call.supplied.type
     /\ call.supplied.dependencies.given =>
          call.result.Dependencies = Slice(call.supplied.dependencies.value)
     /\ call.supplied.priority.given => call.result.Priority = call.supplied.priority.value
     /\ call.supplied.max_retries.given => call.result.MaxRetries = call.supplied.max_retries.value

\* C35: a workflow that CancelWorkflow has set to cancelled stays cancelled,
\* whatever the position of a scheduling tick at the time of the call
C35_CancelSurvivesTheTick ==
  [][\A w \in DOMAIN workflows :
       workflows[w].status = WorkflowStatusCancelled =>
         workflows'[w].status = WorkflowStatusCancelled]_vars

\* the row of the task the tick is about to set to pending is no longer the
\* row GetPendingTasks returned: a status report was stored in between
ReportedSinceRead ==
  /\ tick.pc = "updateTask"
  /\ tasks[Head(tick.sched)] # tick.snap[Head(tick.sched)]

\* C36: the status = pending write of a tick does not replace a status that
\* a report stored after the tick read the pending tasks
C36_TickKeepsReportedStatus ==
  [][(ReportedSinceRead /\ tick'.pc # "updateTask")
       => tasks'[Head(tick.sched)].status = tasks[Head(tick.sched)].status]_vars

\* worker w dies in this step while it holds a task
CrashStep(w) ==
  /\ crashes' = crashes + 1
  /\ worker[w].pc # "dequeue"
  /\ worker'[w] = IdleWorker

\* C37: when a worker dies inside executeTask, the task it holds has an entry
\* in processing[type] or in retry[type], or (after an acknowledgement) the
\* task is terminal in the State Store or still has an entry in some channel
\* of the queue; the outcome is reported by the last call of executeTask,
\* after which the worker holds no task
C37_CrashLeavesTheTaskInAChannel ==
  [][\A w \in Workers :
       CrashStep(w) =>
         LET id == worker[w].task.ID
             ty == WorkerType[w]
         IN \/ CountInList(processing[ty], id) > 0
            \/ \E z \in retry[ty] : z.member.id = id
            \/ CountInList(ready[ty], id) > 0
            \/ CountInList(dead_letter[ty], id) > 0
            \/ tasks[id].status \in {TaskStatusCompleted, TaskStatusFailed, TaskStatusCancelled}]_vars

\* the number of entries in processing, retry and dead_letter of a type
HeldEntries(pr, rt, dl, ty) == Len(pr[ty]) + Cardinality(rt[ty]) + Len(dl[ty])

\* C38: a NackTask of a task that has an entry in processing[type] takes one
\* entry out of processing[type] and adds one to retry[type] or
\* dead_letter[type]: the number of entries of the three together is unchanged
C38_NackConservesEntries ==
  [][\A w \in Workers :
       (NackStep(w) /\ CountJSON(processing[WorkerType[w]], StructToJSON(worker[w].task)) > 0) =>
         /\ Len(processing'[WorkerType[w]]) = Len(processing[WorkerType[w]]) - 1
         /\ HeldEntries(processing', retry', dead_letter', WorkerType[w])
              = HeldEntries(processing, retry, dead_letter, WorkerType[w])]_vars

\* the worker process is started (again) and registers
Registers(id) ==
  /\ id \in DOMAIN workerInfo'
  /\ workerInfo'[id] = [LastHeartbeat |-> now, expires |-> now + WorkerTTL]
  /\ \A ty \in WorkerTaskTypes[id] : id \in workers'[ty]

\* C39: a call of UpdateWorkerHeartbeat that finds the entry of the worker
\* absent returns an error and changes nothing in the registry; a worker
\* whose entry is absent (expired, or deleted by GetActiveWorkers) stays
\* without entry and is in no answer of GetActiveWorkers, for any type and
\* whatever heartbeats it sends, as long as it does not register again
C39_HeartbeatNeverRecreatesTheEntry ==
  [][\A id \in WorkerIds :
       (~KeyExists(workerInfo, id) /\ heartbeat[id].pc # "off" /\ ~Registers(id)) =>
         /\ ~KeyExists(workerInfo, id)'
         /\ (heartbeat[id].pc = "idle" /\ heartbeat'[id] # heartbeat[id]) =>
              (heartbeat'[id].failed /\ workerInfo' = workerInfo /\ workers' = workers)
         /\ active' # active => id \notin active'.ids]_vars

\* C40: after the shutdown signal main cancels the context and stops the
\* scheduler, the two goroutines main waits on (the one that started the
\* scheduler, the one of the API server) finish, and main returns
C40_MainReturnsAfterTheSignal ==
  (main.pc = "cancel") ~>
     /\ ctxDone
     /\ stopPc = "returned"
     /\ main.starter = "done"
     /\ main.server = "done"
     /\ main.pc = "returned"

====
